---- MODULE Spec2Model ----
(***************************************************************************)
(* A model of libslic3r/SupportSpotsGenerator.cpp: the local stability     *)
(* check of extrusions, the reckoning of islands through the pixel grid,   *)
(* the union-find of active object parts and the global stability pass.    *)
(*                                                                         *)
(* Numbers.  The source computes in float.  The model computes in          *)
(* integers: a length is a whole number of length units (UnitsPerMM of     *)
(* them to the millimetre), an area is in square units, a volume is        *)
(* min_mm3_per_mm * len, and so on; a quotient or a square root is rounded *)
(* down.  Lines are axis-parallel, so that a length and a unit direction   *)
(* are exact.  An angle is a whole number of quarter turns (pi/2).  A      *)
(* malformation is in thousandths.  INFINITY and NaN are flags.            *)
(***************************************************************************)
EXTENDS Integers, Sequences, FiniteSets, TLC

VARIABLES
    \* ActiveObjectParts
    next_part_idx,
    active_object_parts,
    active_object_parts_id_mapping,
    thrown,
    \* the caller's Params
    params,
    \* the caller wants the run to be cancelled
    interrupt,
    \* check_extrusion_entity_stability: its arguments and locals
    entity,
    layer_z,
    flow_width,
    prev_layer_lines,
    lines,
    line_idx,
    bridging_acc,
    malformation_acc,
    issues,
    checked_lines_out,
    local_pc,
    \* full_search and check_extrusions_and_build_graph: the object, the place
    \* in the code, and the locals
    po,
    pc,
    layer_idx,
    layer_lines,
    external_lines,
    local_issues,
    islands_graph,
    prev_layer_grid,
    \* reckon_islands: its locals; distributed_length is that of each
    \* distribute_edge call of the parallel_for
    current_layer_grid,
    line_to_island_mapping,
    result,
    distributed_length,
    \* check_global_stability: its locals; merge_calls counts the calls of merge
    island_idx,
    prev_island_to_object_part_mapping,
    next_island_to_object_part_mapping,
    prev_island_weakest_connection,
    next_island_weakest_connection,
    global_issues,
    supports_presence_grid,
    merge_calls,
    \* what full_search returns
    output

uf_vars == <<next_part_idx, active_object_parts, active_object_parts_id_mapping, thrown>>

local_vars == <<entity, layer_z, flow_width, prev_layer_lines, lines, line_idx,
                bridging_acc, malformation_acc, issues, checked_lines_out, local_pc>>

global_vars == <<prev_island_to_object_part_mapping, next_island_to_object_part_mapping,
                 prev_island_weakest_connection, next_island_weakest_connection,
                 global_issues, supports_presence_grid, merge_calls>>

pipe_frame == <<po, layer_lines, external_lines, local_issues, islands_graph, prev_layer_grid,
                current_layer_grid, line_to_island_mapping, result, distributed_length>>

pipe_vars == <<pc, layer_idx, island_idx, output, pipe_frame, global_vars>>

caller_vars == <<params, interrupt>>

vars == <<uf_vars, caller_vars, local_vars, pipe_vars>>

-----------------------------------------------------------------------------
(* Plain helpers *)

\* The value of F at v, with v computed once: a local variable of the code that
\* is assigned once and read many times.
Bind(v, F(_)) == CHOOSE r \in {F(x) : x \in {v}} : TRUE

Min(a, b) == IF a < b THEN a ELSE b

Max(a, b) == IF a > b THEN a ELSE b

Abs(a) == IF a < 0 THEN -a ELSE a

Range(s) == {s[i] : i \in DOMAIN s}

-----------------------------------------------------------------------------
(* ObjectPart *)

\* ObjectPart(const Island &island)
ObjectPartOf(island) ==
    [volume |-> island.volume,
     volume_centroid_accumulator |-> island.volume_centroid_accumulator,
     sticking_area |-> island.sticking_area,
     sticking_centroid_accumulator |-> island.sticking_centroid_accumulator,
     sticking_second_moment_of_area_accumulator |->
         island.sticking_second_moment_of_area_accumulator]

Vec2Add(p, q) == <<p[1] + q[1], p[2] + q[2]>>

Vec3Add(p, q) == <<p[1] + q[1], p[2] + q[2], p[3] + q[3]>>

\* ObjectPart::add without the anchor of the other part.
ObjectPartAdd_MassOnly(this, other) ==
    [this EXCEPT !.volume = @ + other.volume,
                 !.volume_centroid_accumulator = Vec3Add(@, other.volume_centroid_accumulator)]

\* ObjectPart::add
ObjectPartAdd(this, other) ==
    [volume |-> this.volume + other.volume,
     volume_centroid_accumulator |->
         Vec3Add(this.volume_centroid_accumulator, other.volume_centroid_accumulator),
     sticking_area |-> this.sticking_area + other.sticking_area,
     sticking_centroid_accumulator |->
         Vec3Add(this.sticking_centroid_accumulator, other.sticking_centroid_accumulator),
     sticking_second_moment_of_area_accumulator |->
         Vec2Add(this.sticking_second_moment_of_area_accumulator,
                 other.sticking_second_moment_of_area_accumulator)]

-----------------------------------------------------------------------------
(* ActiveObjectParts: the union-find of object parts *)

\* The first loop of get_flat_id: follow the mapping up to its fixed point.
RECURSIVE FollowMapping(_, _)
FollowMapping(mapping, index) ==
    IF index = mapping[index] THEN index ELSE FollowMapping(mapping, mapping[index])

\* The id get_flat_id returns.
get_flat_id(mapping, id) == FollowMapping(mapping, mapping[id])

\* The second loop of get_flat_id: the path from id is pointed at the root.
RECURSIVE CompressPath(_, _, _)
CompressPath(mapping, i, index) ==
    IF index = mapping[i] THEN mapping
    ELSE CompressPath([mapping EXCEPT ![i] = index], mapping[i], index)

\* The mapping get_flat_id leaves behind.
get_flat_id_mapping(mapping, id) == CompressPath(mapping, id, get_flat_id(mapping, id))

\* ActiveObjectParts as one value.
UF(next, parts, mapping, exc) ==
    [next_part_idx |-> next, active_object_parts |-> parts,
     active_object_parts_id_mapping |-> mapping, thrown |-> exc]

\* ActiveObjectParts::insert: the new state; the id returned is uf.next_part_idx.
insert(uf, island) ==
    UF(uf.next_part_idx + 1,
       [i \in DOMAIN uf.active_object_parts \cup {uf.next_part_idx} |->
           IF i = uf.next_part_idx THEN ObjectPartOf(island) ELSE uf.active_object_parts[i]],
       [i \in DOMAIN uf.active_object_parts_id_mapping \cup {uf.next_part_idx} |->
           IF i = uf.next_part_idx THEN uf.next_part_idx
           ELSE uf.active_object_parts_id_mapping[i]],
       uf.thrown)

\* A fault: the part merged away is erased, and its volume and moments are lost.
merge_Erase(uf, from, to) ==
    LET m1 == get_flat_id_mapping(uf.active_object_parts_id_mapping, to)
        to_flat == get_flat_id(uf.active_object_parts_id_mapping, to)
        m2 == get_flat_id_mapping(m1, from)
        from_flat == get_flat_id(m1, from)
        parts == uf.active_object_parts
    IN  UF(uf.next_part_idx, [i \in DOMAIN parts \ {from_flat} |-> parts[i]],
           [m2 EXCEPT ![from] = to_flat], uf.thrown)

\* A fault: the id merged away is not linked to the part it went into.
merge_Unlinked(uf, from, to) ==
    LET to_flat == get_flat_id(uf.active_object_parts_id_mapping, to)
        from_flat == get_flat_id(uf.active_object_parts_id_mapping, from)
        parts == uf.active_object_parts
    IN  IF to_flat \notin DOMAIN parts \/ from_flat \notin DOMAIN parts
        THEN UF(uf.next_part_idx, parts, uf.active_object_parts_id_mapping, TRUE)
        ELSE UF(uf.next_part_idx,
                [i \in DOMAIN parts \ {from_flat} |->
                    IF i = to_flat THEN ObjectPartAdd(parts[to_flat], parts[from_flat]) ELSE parts[i]],
                uf.active_object_parts_id_mapping,
                uf.thrown)

\* ActiveObjectParts::merge.  at() throws std::out_of_range for an erased part.
merge(uf, from, to) ==
    LET m1 == get_flat_id_mapping(uf.active_object_parts_id_mapping, to)
        to_flat == get_flat_id(uf.active_object_parts_id_mapping, to)
        m2 == get_flat_id_mapping(m1, from)
        from_flat == get_flat_id(m1, from)
        parts == uf.active_object_parts
    IN  IF to_flat \notin DOMAIN parts \/ from_flat \notin DOMAIN parts
        THEN UF(uf.next_part_idx, parts, m2, TRUE)
        ELSE LET added == [parts EXCEPT ![to_flat] = ObjectPartAdd(parts[to_flat], parts[from_flat])]
             IN  UF(uf.next_part_idx,
                    [i \in DOMAIN added \ {from_flat} |-> added[i]],
                    [m2 EXCEPT ![from] = to_flat],
                    uf.thrown)

\* ActiveObjectParts::access: the state it leaves (the path is compressed; at() may throw).
access(uf, id) ==
    UF(uf.next_part_idx, uf.active_object_parts,
       get_flat_id_mapping(uf.active_object_parts_id_mapping, id),
       uf.thrown \/ get_flat_id(uf.active_object_parts_id_mapping, id) \notin DOMAIN uf.active_object_parts)

CurrentUF == UF(next_part_idx, active_object_parts, active_object_parts_id_mapping, thrown)

SetUF(uf) ==
    /\ next_part_idx' = uf.next_part_idx
    /\ active_object_parts' = uf.active_object_parts
    /\ active_object_parts_id_mapping' = uf.active_object_parts_id_mapping
    /\ thrown' = uf.thrown

\* ActiveObjectParts active_object_parts { };
UFEmpty ==
    /\ next_part_idx = 0
    /\ active_object_parts = << >>
    /\ active_object_parts_id_mapping = << >>
    /\ thrown = FALSE

-----------------------------------------------------------------------------
(* Numbers and vectors *)

\* Length units to the millimetre (the source unscales nanometre points to
\* float millimetres; the model keeps whole units).
UnitsPerMM == 30

\* PI in thousandths.
PiMilli == 3142

RECURSIVE ISqrtBetween(_, _, _)
ISqrtBetween(n, lo, hi) ==
    IF lo >= hi THEN lo
    ELSE LET mid == (lo + hi + 1) \div 2
         IN  IF mid * mid <= n THEN ISqrtBetween(n, mid, hi) ELSE ISqrtBetween(n, lo, mid - 1)

\* sqrt, rounded down.
ISqrt(n) == ISqrtBetween(n, 0, Min(n, 46340))

Sgn(a) == IF a > 0 THEN 1 ELSE IF a < 0 THEN -1 ELSE 0

Vec2Sub(p, q) == <<p[1] - q[1], p[2] - q[2]>>

Vec3Sub(p, q) == <<p[1] - q[1], p[2] - q[2], p[3] - q[3]>>

Vec2Scale(p, c) == <<p[1] * c, p[2] * c>>

Vec3Scale(p, c) == <<p[1] * c, p[2] * c, p[3] * c>>

\* cwiseProduct
CwiseProduct(p, q) == <<p[1] * q[1], p[2] * q[2]>>

SquaredNorm(v) == v[1] * v[1] + v[2] * v[2]

\* norm(): exact for an axis-parallel vector.
Norm(v) ==
    IF v[2] = 0 THEN Abs(v[1]) ELSE IF v[1] = 0 THEN Abs(v[2]) ELSE ISqrt(SquaredNorm(v))

\* normalized(), of an axis-parallel vector.
Normalized(v) == <<Sgn(v[1]), Sgn(v[2])>>

to_3d(p, z) == <<p[1], p[2], z>>

Head2(p) == <<p[1], p[2]>>

\* angle(v1, v2) = atan2(cross, dot) of two axis-parallel vectors, in quarter turns.
angle(v1, v2) ==
    LET cross == v1[1] * v2[2] - v1[2] * v2[1]
        dot == v1[1] * v2[1] + v1[2] * v2[2]
    IN  IF cross > 0 THEN 1 ELSE IF cross < 0 THEN -1 ELSE IF dot < 0 THEN 2 ELSE 0

-----------------------------------------------------------------------------
(* ExtrusionLine and LinesDistancer *)

\* ExtrusionLine(a, b, origin_entity)
ExtrusionLine(a, b, origin_entity) ==
    [a |-> a, b |-> b, len |-> Norm(Vec2Sub(a, b)), origin_entity |-> origin_entity,
     support_point_generated |-> FALSE, malformation |-> 0]

Clamp(v, lo, hi) == IF v < lo THEN lo ELSE IF v > hi THEN hi ELSE v

\* The point of an axis-parallel line nearest to point.
NearestPointOfLine(line, point) ==
    <<Clamp(point[1], Min(line.a[1], line.b[1]), Max(line.a[1], line.b[1])),
      Clamp(point[2], Min(line.a[2], line.b[2]), Max(line.a[2], line.b[2]))>>

SquaredDistanceToLine(line, point) == SquaredNorm(Vec2Sub(point, NearestPointOfLine(line, point)))

\* AABBTreeLines::squared_distance_to_indexed_lines: the index of a nearest
\* line (the first of the nearest ones), 0 for an empty set of lines.
NearestLineIndex(ls, point) ==
    IF Len(ls) = 0 THEN 0
    ELSE CHOOSE i \in 1..Len(ls) :
            \A j \in 1..Len(ls) :
                LET di == SquaredDistanceToLine(ls[i], point)
                    dj == SquaredDistanceToLine(ls[j], point)
                IN  di < dj \/ (di = dj /\ i <= j)

\* LinesDistancer::signed_distance_from_lines.  The distance is given by its
\* square and its sign: negative is set when distance *= -1 ran; hit is FALSE when
\* the tree reports no line, and the distance is then +infinity.
signed_distance_from_lines(ls, point) ==
    LET idx == NearestLineIndex(ls, point)
    IN  IF idx = 0
        THEN [hit |-> FALSE, squared |-> 0, negative |-> FALSE,
              nearest_line_index_out |-> 0, nearest_point_out |-> point]
        ELSE LET line == ls[idx]
                 v1 == Vec2Sub(line.b, line.a)
                 v2 == Vec2Sub(point, line.a)
             IN  [hit |-> TRUE,
                  squared |-> SquaredDistanceToLine(line, point),
                  negative |-> (v1[1] * v2[2]) - (v1[2] * v2[1]) > 0
                               /\ SquaredDistanceToLine(line, point) > 0,
                  nearest_line_index_out |-> idx,
                  nearest_point_out |-> NearestPointOfLine(line, point)]

\* A fault: fabs(dist) < bound / 2.
FabsLess_Half(dist, bound) == dist.hit /\ 4 * dist.squared < bound * bound

\* fabs(dist) < bound, for a bound >= 0.
FabsLess(dist, bound) == dist.hit /\ dist.squared < bound * bound

\* dist > num/den * bound, for a bound >= 0.
GreaterThanFraction(dist, num, den, bound) ==
    \/ ~dist.hit
    \/ /\ ~dist.negative
       /\ den * den * dist.squared > num * num * bound * bound

-----------------------------------------------------------------------------
(* check_extrusion_entity_stability *)

\* ExtrusionPropertiesAccumulator; a curvature is in quarter turns.
Accumulator(distance, curvature, max_curvature) ==
    [distance |-> distance, curvature |-> curvature, max_curvature |-> max_curvature]

add_distance(acc, dist) == [acc EXCEPT !.distance = acc.distance + dist]

add_angle(acc, ccw_angle) ==
    [acc EXCEPT !.curvature = acc.curvature + ccw_angle,
                !.max_curvature = Max(acc.max_curvature, Abs(acc.curvature + ccw_angle))]

reset(acc) == Accumulator(0, 0, 0)

CeilDiv(a, b) == (a + b - 1) \div b

\* A fault: a pair of points is not resampled.
ResamplePair_Whole(start, next, bridge_distance, e) ==
    IF start = next THEN << >> ELSE <<ExtrusionLine(start, next, e)>>

\* The lines of one pair of points: ceil(dist / bridge_distance) equal pieces.
ResamplePair(start, next, bridge_distance, e) ==
    LET dist_to_next == Norm(Vec2Sub(next, start))
        v == Normalized(Vec2Sub(next, start))
        lines_count == CeilDiv(dist_to_next, bridge_distance)
    IN  [i \in 1..lines_count |->
            ExtrusionLine(Vec2Add(start, Vec2Scale(v, ((i - 1) * dist_to_next) \div lines_count)),
                          Vec2Add(start, Vec2Scale(v, (i * dist_to_next) \div lines_count)),
                          e)]

RECURSIVE ResampleFrom(_, _, _, _)
ResampleFrom(points, point_idx, bridge_distance, e) ==
    IF point_idx >= Len(points) THEN << >>
    ELSE ResamplePair(points[point_idx], points[point_idx + 1], bridge_distance, e)
         \o ResampleFrom(points, point_idx + 1, bridge_distance, e)

\* The lines of a path: the zero-length line of its first point, then the pieces.
ResampledLines(points, bridge_distance, e) ==
    <<ExtrusionLine(points[1], points[1], e)>> \o ResampleFrom(points, 1, bridge_distance, e)

\* SupportPoint(position, force, direction)
SupportPoint(position, force, direction) ==
    [position |-> position, force |-> force, direction |-> direction]

\* A fault: twice the bridge distance is tolerated.
BridgeTooLong_Twice(acc, p) ==
    acc.distance * (2 + acc.max_curvature * p.bridge_distance_decrease_by_curvature_factor)
        > 4 * p.bridge_distance

\* bridging_acc.distance > bridge_distance / (1 + max_curvature * factor / PI),
\* max_curvature being quarter turns: 1 + q * factor / 2.
BridgeTooLong(acc, p) ==
    acc.distance * (2 + acc.max_curvature * p.bridge_distance_decrease_by_curvature_factor)
        > 2 * p.bridge_distance

\* 0.15 * (0.8 + 0.2 * max_curvature / (1 + 0.5 * distance)), in thousandths.
MalformationIncrease(acc) ==
    (150 * (800 + (((200 * acc.max_curvature * PiMilli) \div 2000) * 2 * UnitsPerMM)
                      \div (2 * UnitsPerMM + acc.distance))) \div 1000

\* The state of the loop over the lines of one path.
LoopState(ls, bacc, macc, support_points) ==
    [lines |-> ls, bridging_acc |-> bacc, malformation_acc |-> macc,
     support_points |-> support_points]

\* One iteration of the loop over the lines.
CheckLine(st, idx, z, width, prev, p) ==
    LET current_line == st.lines[idx]
        curr_angle ==
            IF idx + 1 <= Len(st.lines)
            THEN angle(Vec2Sub(current_line.b, current_line.a),
                       Vec2Sub(st.lines[idx + 1].b, st.lines[idx + 1].a))
            ELSE 0
        bacc1 == add_angle(st.bridging_acc, curr_angle)
        macc1 == add_angle(st.malformation_acc, Max(0, curr_angle))
        dist_from_prev_layer == signed_distance_from_lines(prev, current_line.b)
        supported == FabsLess(dist_from_prev_layer, width)
        bacc2 == add_distance(bacc1, current_line.len)
        emit == ~supported /\ BridgeTooLong(bacc2, p)
        bacc3 == IF supported \/ emit THEN reset(bacc1) ELSE bacc2
        carried ==
            IF FabsLess(dist_from_prev_layer, width * 2)
            THEN (9 * prev[dist_from_prev_layer.nearest_line_index_out].malformation) \div 10
            ELSE 0
        hangs == GreaterThanFraction(dist_from_prev_layer, 3, 10, width)
        macc2 == IF hangs THEN add_distance(macc1, current_line.len) ELSE reset(macc1)
        grown == IF hangs THEN MalformationIncrease(macc2) ELSE 0
        new_line == [current_line EXCEPT
                        !.support_point_generated = current_line.support_point_generated \/ emit,
                        !.malformation = current_line.malformation + carried + grown]
    IN  LoopState([st.lines EXCEPT ![idx] = new_line], bacc3, macc2,
                  IF emit
                  THEN Append(st.support_points,
                              SupportPoint(to_3d(current_line.b, z), 0, <<0, 0, -1>>))
                  ELSE st.support_points)

\* A fault: the bridging distance starts at 0.
InitialLoopState_Zero(ls, support_points, p) ==
    LoopState(ls, Accumulator(0, 0, 0), Accumulator(0, 0, 0), support_points)

\* The accumulators before the first line: the bridging distance starts at
\* bridge_distance + 1 (in millimetres).
InitialLoopState(ls, support_points, p) ==
    LoopState(ls, add_distance(Accumulator(0, 0, 0), p.bridge_distance + UnitsPerMM),
              Accumulator(0, 0, 0), support_points)

RECURSIVE CheckLinesFrom(_, _, _, _, _, _)
CheckLinesFrom(st, idx, z, width, prev, p) ==
    IF idx > Len(st.lines) THEN st
    ELSE CheckLinesFrom(CheckLine(st, idx, z, width, prev, p), idx + 1, z, width, prev, p)

\* get_flow_width: the flow role whose width is used for an extrusion role.
FlowRoleOf(role) ==
    CASE role = "erBridgeInfill" -> "frExternalPerimeter"
      [] role = "erExternalPerimeter" -> "frExternalPerimeter"
      [] role = "erGapFill" -> "frInfill"
      [] role = "erPerimeter" -> "frPerimeter"
      [] role = "erSolidInfill" -> "frSolidInfill"
      [] role = "erInternalInfill" -> "frInfill"
      [] role = "erTopSolidInfill" -> "frTopSolidInfill"
      [] OTHER -> "frPerimeter"

\* get_flow_width(region, role); a region is given by the widths of its flows.
get_flow_width(region, role) == region[FlowRoleOf(role)]

-----------------------------------------------------------------------------
(* Params *)

\* Params, in model units (lengths in units, forces in 1/450000 of the force
\* unit): bridge_distance 2.0, factor 5, min_distance_between_support_points 1.0,
\* support_points_interface_radius 0.6, filament_density * gravity 0.01226,
\* max_acceleration 1000, standard_extruder_conflict_force 10,
\* malformations_additive_conflict_extruder_force 5,
\* bed_adhesion_yield_strength 0.018, material_yield_strength 0.008.
SpecParams ==
    [bridge_distance |-> 2 * UnitsPerMM,
     bridge_distance_decrease_by_curvature_factor |-> 5,
     min_distance_between_support_points |-> UnitsPerMM,
     support_points_interface_radius |-> (6 * UnitsPerMM) \div 10,
     filament_density |-> 1,
     gravity_constant |-> 1,
     max_acceleration |-> 102,
     standard_extruder_conflict_force |-> 4500000,
     malformations_additive_conflict_extruder_force |-> 2250000,
     bed_adhesion_yield_strength |-> 9,
     material_yield_strength |-> 4]

\* No Params: the value of params where none is in use.
NoParams == [SpecParams EXCEPT !.bridge_distance = 0]

\* A region whose flows all have one width.
UniformRegion(w) ==
    [frExternalPerimeter |-> w, frPerimeter |-> w, frInfill |-> w,
     frSolidInfill |-> w, frTopSolidInfill |-> w]

-----------------------------------------------------------------------------
(* Extrusion entities *)

\* A path entity: what role(), collect_points(), min_mm3_per_mm() and is_loop() give.
Entity(id, role, points, mm3_per_mm, is_loop) ==
    [id |-> id, role |-> role, points |-> points, min_mm3_per_mm |-> mm3_per_mm,
     is_loop |-> is_loop]

\* nullptr
NoEntity == Entity(0, "erPerimeter", << >>, 0, FALSE)

AxisParallel(p, q) == p[1] = q[1] \/ p[2] = q[2]

Vec2Zero == <<0, 0>>

Vec3Zero == <<0, 0, 0>>

-----------------------------------------------------------------------------
(* The print object and the lines of its layers *)

\* A layer: its slice_z, the number of its regions (one) and, of the region,
\* the paths of perimeters and of fills.
Layer(slice_z, perimeters, fills) ==
    [slice_z |-> slice_z, regions |-> 1, perimeters |-> perimeters, fills |-> fills]

\* A layer that has no region.
LayerWithoutRegions(slice_z) ==
    [slice_z |-> slice_z, regions |-> 0, perimeters |-> << >>, fills |-> << >>]

\* A print object: its layers, the halves of its size in x and y (the object
\* is centred on the origin), its height and the width of the flows of its regions.
PrintObject(layers, size_half, height, width) ==
    [layers |-> layers, size_half |-> size_half, height |-> height,
     region |-> UniformRegion(width)]

RECURSIVE Flatten(_)
Flatten(seqs) == IF seqs = << >> THEN << >> ELSE Head(seqs) \o Flatten(Tail(seqs))

\* for (point_idx = 0; point_idx < int(points.size() - 1); ++point_idx): a line per pair.
RECURSIVE PointsToLines(_, _, _)
PointsToLines(points, point_idx, e) ==
    IF point_idx >= Len(points) THEN << >>
    ELSE <<ExtrusionLine(points[point_idx], points[point_idx + 1], e)>>
         \o PointsToLines(points, point_idx + 1, e)

\* The lines of a perimeter of the base layer: a loop is closed.
BasePerimeterLines(perimeter) ==
    PointsToLines(perimeter.points, 1, perimeter)
    \o IF perimeter.is_loop
       THEN <<ExtrusionLine(perimeter.points[Len(perimeter.points)], perimeter.points[1], perimeter)>>
       ELSE << >>

\* PREPARE BASE LAYER: layer_lines of layer 0.
BaseLayerLines(layer) ==
    Flatten([i \in 1..Len(layer.perimeters) |-> BasePerimeterLines(layer.perimeters[i])])
    \o Flatten([i \in 1..Len(layer.fills) |-> PointsToLines(layer.fills[i].points, 1, layer.fills[i])])

\* check_extrusion_entity_stability on a path, start to end; acc holds
\* checked_lines_out and issues.
check_extrusion_entity_stability(e, acc, z, region, prev, p) ==
    LET st == CheckLinesFrom(
                  InitialLoopState(ResampledLines(e.points, p.bridge_distance, e), acc.issues, p),
                  1, z, get_flow_width(region, e.role), prev, p)
    IN  [checked_lines_out |-> acc.checked_lines_out \o st.lines, issues |-> st.support_points]

RECURSIVE CheckPerimetersFrom(_, _, _, _, _, _, _)
CheckPerimetersFrom(perimeters, i, acc, z, region, prev, p) ==
    IF i > Len(perimeters) THEN acc
    ELSE CheckPerimetersFrom(perimeters, i + 1,
             check_extrusion_entity_stability(perimeters[i], acc, z, region, prev, p),
             z, region, prev, p)

\* Gap fill and bridge infill are checked, the other fills only give their lines.
RECURSIVE CheckFillsFrom(_, _, _, _, _, _, _)
CheckFillsFrom(fills, i, acc, z, region, prev, p) ==
    IF i > Len(fills) THEN acc
    ELSE CheckFillsFrom(fills, i + 1,
             IF fills[i].role \in {"erGapFill", "erBridgeInfill"}
             THEN check_extrusion_entity_stability(fills[i], acc, z, region, prev, p)
             ELSE [acc EXCEPT !.checked_lines_out = @ \o PointsToLines(fills[i].points, 1, fills[i])],
             z, region, prev, p)

\* The body of the loop over the layers above the base layer, up to reckon_islands:
\* layer_lines and issues.
CheckLayer(layer, region, prev, support_points, p) ==
    CheckFillsFrom(layer.fills, 1,
        CheckPerimetersFrom(layer.perimeters, 1,
            [checked_lines_out |-> << >>, issues |-> support_points],
            layer.slice_z, region, prev, p),
        layer.slice_z, region, prev, p)

-----------------------------------------------------------------------------
(* reckon_islands: from layer_lines to the islands *)

\* NULL_ISLAND; the islands of a layer are numbered from 1.
NULL_ISLAND == 0

\* extrusions: [first, second) index pairs into layer_lines, one per run of
\* lines of one origin_entity.
RECURSIVE ExtrusionsFrom(_, _, _, _)
ExtrusionsFrom(layer_ls, lidx, current_ex, extrusions) ==
    IF lidx > Len(layer_ls) THEN extrusions
    ELSE IF layer_ls[lidx].origin_entity = current_ex
         THEN ExtrusionsFrom(layer_ls, lidx + 1, current_ex,
                  [extrusions EXCEPT ![Len(extrusions)].second = lidx + 1])
         ELSE ExtrusionsFrom(layer_ls, lidx + 1, layer_ls[lidx].origin_entity,
                  Append(extrusions, [first |-> lidx, second |-> lidx + 1]))

is_external_perimeter(line) == line.origin_entity.role = "erExternalPerimeter"

\* The lines of an extrusion.
ExtrusionLines(layer_ls, extrusion) ==
    SubSeq(layer_ls, extrusion.first, extrusion.second - 1)

\* island_extrusions after the seeding: an island for every external perimeter,
\* or, if there is none, for the first extrusion.
SeedIslandExtrusions(layer_ls, extrusions) ==
    LET external == SelectSeq([e \in 1..Len(extrusions) |-> e],
                        LAMBDA e : is_external_perimeter(layer_ls[extrusions[e].first]))
    IN  IF external = << >> /\ extrusions # << >>
        THEN << <<1>> >>
        ELSE [k \in 1..Len(external) |-> <<external[k]>>]

\* islands: the lines of the seeding extrusion of each island.
SeedIslands(layer_ls, extrusions) ==
    LET seeds == SeedIslandExtrusions(layer_ls, extrusions)
    IN  [k \in 1..Len(seeds) |-> ExtrusionLines(layer_ls, extrusions[seeds[k][1]])]

\* signed_distance_from_lines(...) < 0
IsInside(island_lines, point) ==
    LET dist == signed_distance_from_lines(island_lines, point)
    IN  dist.hit /\ dist.negative

\* assign non external extrusions to islands
RECURSIVE AssignExtrusionsFrom(_, _, _, _, _)
AssignExtrusionsFrom(layer_ls, extrusions, islands, island_extrusions, e) ==
    IF e > Len(extrusions) THEN island_extrusions
    ELSE IF is_external_perimeter(layer_ls[extrusions[e].first])
         THEN AssignExtrusionsFrom(layer_ls, extrusions, islands, island_extrusions, e + 1)
         ELSE LET inside == {i \in 1..Len(islands) :
                                IsInside(islands[i], layer_ls[extrusions[e].first].a)}
                  i == IF inside = {} THEN 1
                       ELSE CHOOSE m \in inside : \A n \in inside : m <= n
              IN  AssignExtrusionsFrom(layer_ls, extrusions, islands,
                      [island_extrusions EXCEPT ![i] = Append(@, e)], e + 1)

\* merge islands which are embedded within each other
RECURSIVE MergeNestedFrom(_, _, _, _)
MergeNestedFrom(islands, island_extrusions, i, j) ==
    IF i > Len(islands) THEN island_extrusions
    ELSE IF j > Len(islands) THEN MergeNestedFrom(islands, island_extrusions, i + 1, 1)
    ELSE IF i = j \/ ~IsInside(islands[i], islands[j][1].a)
         THEN MergeNestedFrom(islands, island_extrusions, i, j + 1)
         ELSE MergeNestedFrom(islands,
                  [island_extrusions EXCEPT ![i] = island_extrusions[i] \o island_extrusions[j],
                                            ![j] = << >>],
                  i, j + 1)

\* island_extrusions as reckon_islands has it before it builds the result.
IslandExtrusions(layer_ls) ==
    Bind(ExtrusionsFrom(layer_ls, 1, NoEntity, << >>), LAMBDA extrusions :
    Bind(SeedIslands(layer_ls, extrusions), LAMBDA islands :
    Bind(AssignExtrusionsFrom(layer_ls, extrusions, islands,
                              SeedIslandExtrusions(layer_ls, extrusions), 1),
         LAMBDA island_extrusions : MergeNestedFrom(islands, island_extrusions, 1, 1))))

\* Island { }
EmptyIsland ==
    [connected_islands |-> << >>, volume |-> 0, volume_centroid_accumulator |-> Vec3Zero,
     sticking_area |-> 0, sticking_centroid_accumulator |-> Vec3Zero,
     sticking_second_moment_of_area_accumulator |-> Vec2Zero, external_lines |-> << >>]

\* (a + b) / 2
Middle(line) == <<(line.a[1] + line.b[1]) \div 2, (line.a[2] + line.b[2]) \div 2>>

\* The sticking area and moments of a line that sticks at point are added.
AddSticking(island, line, point, slice_z, width) ==
    LET sticking_area == line.len * width
    IN  [island EXCEPT
            !.sticking_area = @ + sticking_area,
            !.sticking_centroid_accumulator = Vec3Add(@, Vec3Scale(to_3d(point, slice_z), sticking_area)),
            !.sticking_second_moment_of_area_accumulator =
                Vec2Add(@, Vec2Scale(CwiseProduct(point, point), sticking_area))]

\* A fault: above the first layer every line sticks as well.
AddLine_AllStick(island, line, slice_z, first_layer, width) ==
    AddSticking([island EXCEPT !.volume = @ + line.origin_entity.min_mm3_per_mm * line.len,
                               !.volume_centroid_accumulator =
                                   Vec3Add(@, Vec3Scale(to_3d(Middle(line), slice_z),
                                                        line.origin_entity.min_mm3_per_mm * line.len))],
                line, IF first_layer THEN Middle(line) ELSE line.b, slice_z, width)

\* The body of the loop over the lines of an island.
AddLine(island, line, slice_z, first_layer, width) ==
    LET volume == line.origin_entity.min_mm3_per_mm * line.len
        grown == [island EXCEPT
                     !.volume = @ + volume,
                     !.volume_centroid_accumulator =
                         Vec3Add(@, Vec3Scale(to_3d(Middle(line), slice_z), volume))]
    IN  IF first_layer THEN AddSticking(grown, line, Middle(line), slice_z, width)
        ELSE IF line.support_point_generated THEN AddSticking(grown, line, line.b, slice_z, width)
        ELSE grown

RECURSIVE AddLinesFrom(_, _, _, _, _, _)
AddLinesFrom(island, ls, k, slice_z, first_layer, width) ==
    IF k > Len(ls) THEN island
    ELSE AddLinesFrom(AddLine(island, ls[k], slice_z, first_layer, width), ls, k + 1,
                      slice_z, first_layer, width)

\* The island of a non-empty island_ex.
BuildIsland(layer_ls, extrusions, island_ex, slice_z, first_layer, width) ==
    AddLinesFrom(
        [EmptyIsland EXCEPT !.external_lines = ExtrusionLines(layer_ls, extrusions[island_ex[1]])],
        Flatten([n \in 1..Len(island_ex) |-> ExtrusionLines(layer_ls, extrusions[island_ex[n]])]),
        1, slice_z, first_layer, width)

\* The island_extrusions that give an island.
NonEmptyIslandExtrusions(layer_ls) ==
    SelectSeq(IslandExtrusions(layer_ls), LAMBDA island_ex : island_ex # << >>)

\* LayerIslands result, before the connections are determined.
BuildLayerIslands(layer, first_layer, layer_ls, region) ==
    Bind(ExtrusionsFrom(layer_ls, 1, NoEntity, << >>), LAMBDA extrusions :
    Bind(NonEmptyIslandExtrusions(layer_ls), LAMBDA island_exs :
        [islands |-> [k \in 1..Len(island_exs) |->
                         BuildIsland(layer_ls, extrusions, island_exs[k], layer.slice_z,
                                     first_layer, get_flow_width(region, "erExternalPerimeter"))],
         layer_z |-> layer.slice_z]))

\* A fault: the index is taken after the island is pushed.
LineToIslandMapping_AfterPush(layer_ls) ==
    Bind(ExtrusionsFrom(layer_ls, 1, NoEntity, << >>), LAMBDA extrusions :
    Bind(NonEmptyIslandExtrusions(layer_ls), LAMBDA island_exs :
        [lidx \in 1..Len(layer_ls) |->
            LET having == {k \in 1..Len(island_exs) :
                              \E n \in 1..Len(island_exs[k]) :
                                  /\ extrusions[island_exs[k][n]].first <= lidx
                                  /\ lidx < extrusions[island_exs[k][n]].second}
            IN  IF having = {} THEN NULL_ISLAND
                ELSE 1 + CHOOSE k \in having : \A m \in having : m <= k]))

\* line_to_island_mapping: the last island built that has the line, or NULL_ISLAND.
LineToIslandMapping(layer_ls) ==
    Bind(ExtrusionsFrom(layer_ls, 1, NoEntity, << >>), LAMBDA extrusions :
    Bind(NonEmptyIslandExtrusions(layer_ls), LAMBDA island_exs :
        [lidx \in 1..Len(layer_ls) |->
            LET having == {k \in 1..Len(island_exs) :
                              \E n \in 1..Len(island_exs[k]) :
                                  /\ extrusions[island_exs[k][n]].first <= lidx
                                  /\ lidx < extrusions[island_exs[k][n]].second}
            IN  IF having = {} THEN NULL_ISLAND
                ELSE CHOOSE k \in having : \A m \in having : m <= k]))
-----------------------------------------------------------------------------
(* PixelGrid and the connections to the previous layer *)

\* PixelGrid(po, resolution), cleared.  pixels is the flat vector, indexed from 0.
PixelGrid(object, resolution) ==
    LET pixel_count == <<(2 * object.size_half[1]) \div resolution + 1,
                         (2 * object.size_half[2]) \div resolution + 1>>
    IN  [pixel_size |-> resolution,
         origin |-> <<-object.size_half[1], -object.size_half[2]>>,
         pixel_count |-> pixel_count,
         pixels |-> [i \in 0..(pixel_count[1] * pixel_count[2] - 1) |-> NULL_ISLAND]]

\* A fault: the pixels keep the ids of the layer below.
clear_Kept(grid) == grid

\* PixelGrid::clear
clear(grid) == [grid EXCEPT !.pixels = [i \in DOMAIN grid.pixels |-> NULL_ISLAND]]

pixel_area(grid) == grid.pixel_size * grid.pixel_size

to_pixel_coords(grid, position) ==
    <<(position[1] - grid.origin[1]) \div grid.pixel_size,
      (position[2] - grid.origin[2]) \div grid.pixel_size>>

to_pixel_index(grid, pixel_coords) == pixel_coords[2] * grid.pixel_count[1] + pixel_coords[1]

get_pixel(grid, coords) == grid.pixels[to_pixel_index(grid, coords)]

get_pixel_center(grid, coords) ==
    <<grid.origin[1] + coords[1] * grid.pixel_size + grid.pixel_size \div 2,
      grid.origin[2] + coords[2] * grid.pixel_size + grid.pixel_size \div 2>>

\* if (length < 0.1) return;
MinEdgeLength == UnitsPerMM \div 10

\* distribute_edge has nothing (more) to write for a line it has distributed
\* distributed_length of.
EdgeDistributed(p1, p2, distributed) ==
    LET length == Norm(Vec2Sub(p2, p1))
    IN  length < MinEdgeLength \/ distributed >= length

\* One iteration of the while loop of distribute_edge: the pixel written.
EdgeLocation(grid, p1, p2, distributed) ==
    LET dir == Vec2Sub(p2, p1)
        length == Norm(dir)
        next_len == Min(length, distributed + grid.pixel_size \div 2)
    IN  <<p1[1] + (next_len * dir[1]) \div length, p1[2] + (next_len * dir[2]) \div length>>

\* ... and the distributed_length it leaves.
EdgeNextLength(grid, p1, p2, distributed) ==
    Min(Norm(Vec2Sub(p2, p1)), distributed + grid.pixel_size \div 2)

\* A fault: the pixel is not written.
WritePixel_Lost(grid, location, value) == grid

\* this->access_pixel(location) = value
WritePixel(grid, location, value) ==
    [grid EXCEPT !.pixels[to_pixel_index(grid, to_pixel_coords(grid, location))] = value]

\* distribute_edge, run from distributed_length to its end with no other writer.
RECURSIVE distribute_edge(_, _, _, _, _)
distribute_edge(grid, p1, p2, value, distributed) ==
    IF EdgeDistributed(p1, p2, distributed) THEN grid
    ELSE distribute_edge(WritePixel(grid, EdgeLocation(grid, p1, p2, distributed), value),
                         p1, p2, value, EdgeNextLength(grid, p1, p2, distributed))

\* The index image the lines give when they are distributed one after the
\* other, in the order of layer_lines.
RECURSIVE DistributeInOrder(_, _, _, _)
DistributeInOrder(grid, layer_ls, mapping, i) ==
    IF i > Len(layer_ls) THEN grid
    ELSE DistributeInOrder(distribute_edge(grid, layer_ls[i].a, layer_ls[i].b, mapping[i], 0),
                           layer_ls, mapping, i + 1)

\* IslandConnection; infinite says that second_moment_of_area_accumulator is
\* { INFINITY, INFINITY }.
IslandConnection(area, centroid_accumulator, second_moment_of_area_accumulator, infinite) ==
    [area |-> area, centroid_accumulator |-> centroid_accumulator,
     second_moment_of_area_accumulator |-> second_moment_of_area_accumulator,
     infinite |-> infinite]

\* IslandConnection { }
NoConnection == IslandConnection(0, Vec3Zero, Vec2Zero, FALSE)

\* IslandConnection::add
ConnectionAdd(this, other) ==
    IslandConnection(this.area + other.area,
                     Vec3Add(this.centroid_accumulator, other.centroid_accumulator),
                     Vec2Add(this.second_moment_of_area_accumulator,
                             other.second_moment_of_area_accumulator),
                     this.infinite \/ other.infinite)

\* What one overlapping pixel adds to a connection.
PixelConnection(grid, index, z) ==
    LET current_coords == get_pixel_center(grid, <<index % grid.pixel_count[1],
                                                    index \div grid.pixel_count[1]>>)
    IN  IslandConnection(pixel_area(grid),
                         Vec3Scale(to_3d(current_coords, z), pixel_area(grid)),
                         Vec2Scale(CwiseProduct(current_coords, current_coords), pixel_area(grid)),
                         FALSE)

\* The pixels where island cur of this layer lies over island prev of the previous one.
OverlappingPixels(cur_grid, prev_grid, cur, prev) ==
    {i \in DOMAIN cur_grid.pixels :
        cur_grid.pixels[i] = cur /\ prev_grid.pixels[i] = prev}

\* A fault: the pixel counts for every island of the previous layer that is
\* connected already.
AddPixelConnection_ToAll(connected_islands, prev, connection) ==
    [k \in DOMAIN connected_islands \cup {prev} |->
        IF k \in DOMAIN connected_islands
        THEN ConnectionAdd(connected_islands[k], connection) ELSE connection]

\* connected_islands[prev] += the pixel; operator[] makes the entry if there is none.
AddPixelConnection(connected_islands, prev, connection) ==
    [k \in DOMAIN connected_islands \cup {prev} |->
        IF k # prev THEN connected_islands[k]
        ELSE IF k \in DOMAIN connected_islands
        THEN ConnectionAdd(connected_islands[k], connection) ELSE connection]

\* The body of the sweep over the pixels, at the pixel of the index.
SweepPixel(islands, cur_grid, prev_grid, index, z) ==
    IF cur_grid.pixels[index] # NULL_ISLAND /\ prev_grid.pixels[index] # NULL_ISLAND
    THEN [islands EXCEPT ![cur_grid.pixels[index]].connected_islands =
             AddPixelConnection(@, prev_grid.pixels[index], PixelConnection(cur_grid, index, z))]
    ELSE islands

\* The sweep over the pixels from the index on.
RECURSIVE SweepFrom(_, _, _, _, _)
SweepFrom(islands, cur_grid, prev_grid, index, z) ==
    IF index \notin DOMAIN cur_grid.pixels THEN islands
    ELSE Bind(SweepPixel(islands, cur_grid, prev_grid, index, z),
              LAMBDA swept : SweepFrom(swept, cur_grid, prev_grid, index + 1, z))

\* The result of reckon_islands: the islands with their connections.
WithConnections(layer_islands, cur_grid, prev_grid) ==
    [layer_islands EXCEPT !.islands =
        SweepFrom(layer_islands.islands, cur_grid, prev_grid, 0, layer_islands.layer_z)]
-----------------------------------------------------------------------------
(* SupportGridFilter *)

\* SupportGridFilter(po, voxel_size), with no cell taken.
SupportGridFilter(object, voxel_size) ==
    [cell_size |-> voxel_size,
     origin |-> <<-object.size_half[1] - voxel_size, -object.size_half[2] - voxel_size, -voxel_size>>,
     cell_count |-> <<(2 * object.size_half[1] + 2 * voxel_size) \div voxel_size + 1,
                      (2 * object.size_half[2] + 2 * voxel_size) \div voxel_size + 1,
                      (object.height + 2 * voxel_size) \div voxel_size + 1>>,
     taken_cells |-> {}]

to_cell_coords(filter, position) ==
    <<(position[1] - filter.origin[1]) \div filter.cell_size,
      (position[2] - filter.origin[2]) \div filter.cell_size,
      (position[3] - filter.origin[3]) \div filter.cell_size>>

to_cell_index(filter, cell_coords) ==
    cell_coords[3] * filter.cell_count[1] * filter.cell_count[2]
        + cell_coords[2] * filter.cell_count[1] + cell_coords[1]

take_position(filter, position) ==
    [filter EXCEPT !.taken_cells = @ \cup {to_cell_index(filter, to_cell_coords(filter, position))}]

\* A fault: no position is ever found taken.
position_taken_Never(filter, position) == FALSE

position_taken(filter, position) ==
    to_cell_index(filter, to_cell_coords(filter, position)) \in filter.taken_cells

-----------------------------------------------------------------------------
(* ObjectPart::is_stable_while_extruding *)

\* The force 1.0f, in the unit of force of Params.
ForceUnit == 450000

\* The float +infinity as a force.
FloatInfinity == 2147483647

\* A float the stability test returns: NaN, or a value; positive is value > 0.
Float(nan, positive, value) == [nan |-> nan, positive |-> positive, value |-> value]

NaN == Float(TRUE, FALSE, 0)

\* A fault: the ratio counts as positive whenever it is not zero.
TorqueOverArm_NotZero(total_torque, arm) ==
    IF arm = 0 THEN Float(FALSE, total_torque # 0, FloatInfinity)
    ELSE Float(FALSE, total_torque # 0, total_torque \div arm)

\* total_torque / conflict_torque_arm
TorqueOverArm(total_torque, arm) ==
    IF arm = 0
    THEN IF total_torque > 0 THEN Float(FALSE, TRUE, FloatInfinity)
         ELSE IF total_torque < 0 THEN Float(FALSE, FALSE, -FloatInfinity)
         ELSE NaN
    ELSE Float(FALSE, total_torque > 0, total_torque \div arm)

\* A fault: the support point adds nothing to the part.
add_support_point_Nothing(part, position, sticking_area) == part

\* ObjectPart::add_support_point
add_support_point(part, position, sticking_area) ==
    [part EXCEPT
        !.sticking_area = @ + sticking_area,
        !.sticking_centroid_accumulator = Vec3Add(@, Vec3Scale(position, sticking_area)),
        !.sticking_second_moment_of_area_accumulator =
            Vec2Add(@, Vec2Scale(CwiseProduct(Head2(position), Head2(position)), sticking_area))]

\* centroid_accumulator / area
Centroid(centroid_accumulator, area) ==
    <<centroid_accumulator[1] \div area, centroid_accumulator[2] \div area,
      centroid_accumulator[3] \div area>>

\* second_moment_of_area_accumulator / area - centroid.head<2>().cwiseProduct(centroid.head<2>())
Variance(centroid_accumulator, second_moment_of_area_accumulator, area) ==
    LET centroid == Centroid(centroid_accumulator, area)
    IN  <<second_moment_of_area_accumulator[1] \div area - centroid[1] * centroid[1],
          second_moment_of_area_accumulator[2] \div area - centroid[2] * centroid[2]>>

\* compute_elastic_section_modulus: area * (variance.x + variance.y) / extreme_fiber_dist
\* with extreme_fiber_dist = sqrt(variance.x + variance.y), 0 below EPSILON.
compute_elastic_section_modulus(centroid_accumulator, second_moment_of_area_accumulator, area, line_dir) ==
    LET variance == CwiseProduct(
                        Variance(centroid_accumulator, second_moment_of_area_accumulator, area),
                        <<Abs(line_dir[1]), Abs(line_dir[2])>>)
    IN  IF variance[1] + variance[2] <= 0 THEN 0
        ELSE (area * ISqrt(256 * (variance[1] + variance[2]))) \div 16

\* extruder_pressure_direction before it is normalized, in hundredths.
PressureDirection(line_dir, malformation) ==
    <<100 * line_dir[1], 100 * line_dir[2], -(malformation \div 20)>>

\* The distance of point to the line through endpoint along direction.
distance_to(endpoint, direction, point) ==
    LET d == Vec3Sub(point, endpoint)
        cross == <<d[2] * direction[3] - d[3] * direction[2],
                   d[3] * direction[1] - d[1] * direction[3],
                   d[1] * direction[2] - d[2] * direction[1]>>
    IN  ISqrt(cross[1] * cross[1] + cross[2] * cross[2] + cross[3] * cross[3])
            \div ISqrt(direction[1] * direction[1] + direction[2] * direction[2]
                       + direction[3] * direction[3])

\* A fault: a part that sticks to nothing counts as stable.
FreshlyHanging_Stable == Float(FALSE, FALSE, 0)

\* What is returned for a part whose sticking_area is below EPSILON: 1.0f.
FreshlyHanging == Float(FALSE, TRUE, ForceUnit)

\* ObjectPart::is_stable_while_extruding
is_stable_while_extruding(part, connection, extruded_line, z, p) ==
    LET line_dir == Normalized(Vec2Sub(extruded_line.b, extruded_line.a))
        mass_centroid == Centroid(part.volume_centroid_accumulator, part.volume)
        mass == part.volume * p.filament_density
        weight == mass * p.gravity_constant
        movement_force == p.max_acceleration * mass
        extruder_pressure_direction == PressureDirection(line_dir, extruded_line.malformation)
        endpoint == to_3d(extruded_line.b, z)
        extruder_conflict_force ==
            p.standard_extruder_conflict_force
                + Min(extruded_line.malformation, 1000)
                      * (p.malformations_additive_conflict_extruder_force \div 1000)
        bed_centroid == Centroid(part.sticking_centroid_accumulator, part.sticking_area)
        bed_yield_torque ==
            compute_elastic_section_modulus(part.sticking_centroid_accumulator,
                part.sticking_second_moment_of_area_accumulator, part.sticking_area, line_dir)
                * p.bed_adhesion_yield_strength
        bed_weight_torque == Norm(Vec2Sub(Head2(bed_centroid), Head2(mass_centroid))) * weight
        bed_movement_torque == movement_force * Max(0, mass_centroid[3] - bed_centroid[3])
        bed_conflict_torque_arm == distance_to(endpoint, extruder_pressure_direction, bed_centroid)
        bed_total_torque == bed_movement_torque + extruder_conflict_force * bed_conflict_torque_arm
                                + bed_weight_torque - bed_yield_torque
        conn_centroid == Centroid(connection.centroid_accumulator, connection.area)
        conn_yield_torque ==
            compute_elastic_section_modulus(connection.centroid_accumulator,
                connection.second_moment_of_area_accumulator, connection.area, line_dir)
                * p.material_yield_strength
        conn_weight_torque ==
            (Norm(Vec2Sub(Head2(conn_centroid), Head2(mass_centroid))) * weight * conn_centroid[3])
                \div z
        conn_movement_torque == movement_force * Max(0, mass_centroid[3] - conn_centroid[3])
        conn_conflict_torque_arm == distance_to(endpoint, extruder_pressure_direction, conn_centroid)
        conn_total_torque == conn_movement_torque + extruder_conflict_force * conn_conflict_torque_arm
                                 + conn_weight_torque - conn_yield_torque
    IN  IF part.sticking_area < 1 THEN FreshlyHanging
        ELSE IF part.volume # 0 /\ bed_total_torque > 0
        THEN TorqueOverArm(bed_total_torque, bed_conflict_torque_arm)
        ELSE IF connection.area < 1 THEN Float(FALSE, TRUE, ForceUnit)
        ELSE IF part.volume = 0 \/ connection.infinite \/ z = 0 THEN NaN
        ELSE TorqueOverArm(conn_total_torque, conn_conflict_torque_arm)

-----------------------------------------------------------------------------
(* check_global_stability *)

\* The locals of check_global_stability as one value; merge_calls counts the
\* calls of ActiveObjectParts::merge.
GlobalState(parts, prev_part, next_part, prev_weakest, next_weakest, support_points, filter, calls) ==
    [active_object_parts |-> parts,
     prev_island_to_object_part_mapping |-> prev_part,
     next_island_to_object_part_mapping |-> next_part,
     prev_island_weakest_connection |-> prev_weakest,
     next_island_weakest_connection |-> next_weakest,
     issues |-> support_points,
     supports_presence_grid |-> filter,
     merge_calls |-> calls]

\* unordered_map::emplace
Emplace(map, key, value) ==
    IF key \in DOMAIN map THEN map
    ELSE [k \in DOMAIN map \cup {key} |-> IF k = key THEN value ELSE map[k]]

\* An empty unordered_map.
EmptyMap == [k \in {} |-> 0]

\* get_flat_id on the part of each of the islands, one after the other: the
\* mapping it leaves.
RECURSIVE FlattenAll(_, _, _)
FlattenAll(mapping, prev_part, prev_islands) ==
    IF prev_islands = {} THEN mapping
    ELSE LET i == CHOOSE j \in prev_islands : TRUE
         IN  FlattenAll(get_flat_id_mapping(mapping, prev_part[i]), prev_part, prev_islands \ {i})

\* The sum of the connections at the keys.
RECURSIVE SumConnections(_, _)
SumConnections(connections, keys) ==
    IF keys = {} THEN NoConnection
    ELSE LET i == CHOOSE j \in keys : TRUE
         IN  ConnectionAdd(connections[i], SumConnections(connections, keys \ {i}))

\* for (size_t part_id : parts_ids) if (final_part_id != part_id) merge(part_id, final_part_id);
\* st holds the parts and the count of the calls of merge.
RECURSIVE MergeAll(_, _, _)
MergeAll(st, parts_ids, final_part_id) ==
    IF parts_ids \ {final_part_id} = {} THEN st
    ELSE LET part_id == CHOOSE j \in parts_ids \ {final_part_id} : TRUE
         IN  MergeAll([active_object_parts |-> merge(st.active_object_parts, part_id, final_part_id),
                       merge_calls |-> st.merge_calls + 1],
                      parts_ids \ {part_id}, final_part_id)

\* estimate_strength(a) < estimate_strength(b)
WeakerThan(a, b, z) ==
    LET variance_a == Variance(a.centroid_accumulator, a.second_moment_of_area_accumulator, a.area)
        variance_b == Variance(b.centroid_accumulator, b.second_moment_of_area_accumulator, b.area)
        arm_a == Max((11 * UnitsPerMM) \div 10, z - a.centroid_accumulator[3] \div a.area)
        arm_b == Max((11 * UnitsPerMM) \div 10, z - b.centroid_accumulator[3] \div b.area)
    IN  /\ ~a.infinite
        /\ \/ b.infinite
           \/ Min(variance_a[1], variance_a[2]) * arm_b < Min(variance_b[1], variance_b[2]) * arm_a

\* A fault: the weakest connections of the islands below are forgotten.
WeakestOf_New(transfered_weakest_connection, new_weakest_connection, z) == new_weakest_connection

\* if (estimate_strength(transfered) < estimate_strength(new)) new = transfered;
WeakestOf(transfered_weakest_connection, new_weakest_connection, z) ==
    IF WeakerThan(transfered_weakest_connection, new_weakest_connection, z)
    THEN transfered_weakest_connection
    ELSE new_weakest_connection

\* The ids of the parts the island is connected to.
PartsIds(g, island) ==
    {get_flat_id(g.active_object_parts.active_object_parts_id_mapping,
                 g.prev_island_to_object_part_mapping[i]) : i \in DOMAIN island.connected_islands}

\* The body of the first loop over the islands of a layer; final_part_id is
\* *parts_ids.begin().
AssignIsland(g, island, island_i, final_part_id, z) ==
    IF DOMAIN island.connected_islands = {}
    THEN [g EXCEPT
            !.active_object_parts = insert(@, island),
            !.next_island_to_object_part_mapping =
                Emplace(@, island_i, g.active_object_parts.next_part_idx),
            !.next_island_weakest_connection =
                Emplace(@, island_i,
                        IslandConnection(UnitsPerMM * UnitsPerMM, Vec3Zero, Vec2Zero, TRUE))]
    ELSE LET connected == DOMAIN island.connected_islands
             parts_ids == PartsIds(g, island)
             flat == [g.active_object_parts EXCEPT !.active_object_parts_id_mapping =
                         FlattenAll(@, g.prev_island_to_object_part_mapping, connected)]
             transfered_weakest_connection ==
                 SumConnections(g.prev_island_weakest_connection, connected)
             new_weakest_connection == SumConnections(island.connected_islands, connected)
             merged == MergeAll([active_object_parts |-> flat, merge_calls |-> g.merge_calls],
                                parts_ids, final_part_id)
             accessed == access(merged.active_object_parts, final_part_id)
         IN  [g EXCEPT
                !.active_object_parts =
                    IF accessed.thrown THEN accessed
                    ELSE [accessed EXCEPT !.active_object_parts[final_part_id] =
                             ObjectPartAdd(@, ObjectPartOf(island))],
                !.next_island_to_object_part_mapping = Emplace(@, island_i, final_part_id),
                !.next_island_weakest_connection =
                    Emplace(@, island_i,
                            WeakestOf(transfered_weakest_connection, new_weakest_connection, z)),
                !.merge_calls = merged.merge_calls]

\* The mappings of the layer become the previous ones.
SwapMappings(g) ==
    [g EXCEPT
        !.prev_island_to_object_part_mapping = g.next_island_to_object_part_mapping,
        !.next_island_to_object_part_mapping = EmptyMap,
        !.prev_island_weakest_connection = g.next_island_weakest_connection,
        !.next_island_weakest_connection = EmptyMap]

\* support_points_interface_radius^2 * PI
SupportArea(p) ==
    (p.support_points_interface_radius * p.support_points_interface_radius * PiMilli) \div 1000

\* The state of the loop over the external lines of an island.
CheckState(g, unchecked_dist) == [g |-> g, unchecked_dist |-> unchecked_dist]

\* target_point: the point of the external lines of the island that is nearest
\* to the point 300 mm ahead of the end of the line.
TargetPoint(island, line) ==
    signed_distance_from_lines(
        island.external_lines,
        Vec2Add(line.b, Vec2Scale(Normalized(Vec2Sub(line.b, line.a)), 300 * UnitsPerMM))
    ).nearest_point_out

\* A fault: the distance since the last check is not consulted.
LineSkipped_Malformed(unchecked_dist, line, p) == line.malformation < 300 \/ line.len = 0

\* (unchecked_dist + line.len < min_distance_between_support_points
\*  && line.malformation < 0.3f) || line.len == 0
LineSkipped(unchecked_dist, line, p) ==
    \/ /\ unchecked_dist + line.len < p.min_distance_between_support_points
       /\ line.malformation < 300
    \/ line.len = 0

\* The else branch of the body of the loop over the external lines: the
\* stability of the part while the line is extruded, and the support point.
CheckStability(st, line, island, island_i, part_id, z, p) ==
    LET part == st.g.active_object_parts.active_object_parts[part_id]
        weakest_conn == st.g.prev_island_weakest_connection[island_i]
        force == is_stable_while_extruding(part, weakest_conn, line, z, p)
        line_dir == Normalized(Vec2Sub(line.b, line.a))
        target_point == TargetPoint(island, line)
        support_point == to_3d(target_point, z)
        area == SupportArea(p)
    IN  IF force.positive /\ ~position_taken(st.g.supports_presence_grid, support_point)
        THEN CheckState(
                 [st.g EXCEPT
                     !.active_object_parts.active_object_parts[part_id] =
                         add_support_point(@, support_point, area),
                     !.issues = Append(@, SupportPoint(support_point, force.value,
                                                       to_3d(line_dir, 0))),
                     !.supports_presence_grid = take_position(@, support_point),
                     !.prev_island_weakest_connection[island_i] =
                         ConnectionAdd(@, IslandConnection(area,
                             Vec3Scale(support_point, area),
                             Vec2Scale(CwiseProduct(target_point, target_point), area),
                             FALSE))],
                 line.len)
        ELSE CheckState(st.g, line.len)

\* The body of the loop over the external lines of an island; part_id is the
\* flat id of the part of the island.
CheckExternalLine(st, line, island, island_i, part_id, z, p) ==
    IF LineSkipped(st.unchecked_dist, line, p)
    THEN CheckState(st.g, st.unchecked_dist + line.len)
    ELSE CheckStability(st, line, island, island_i, part_id, z, p)

RECURSIVE CheckExternalLinesFrom(_, _, _, _, _, _, _)
CheckExternalLinesFrom(st, k, island, island_i, part_id, z, p) ==
    IF k > Len(island.external_lines) THEN st
    ELSE Bind(CheckExternalLine(st, island.external_lines[k], island, island_i, part_id, z, p),
              LAMBDA checked : CheckExternalLinesFrom(checked, k + 1, island, island_i, part_id, z, p))

\* The body of the second loop over the islands of a layer.
CheckIsland(g, island, island_i, z, p) ==
    LET accessed == access(g.active_object_parts, g.prev_island_to_object_part_mapping[island_i])
        part_id == get_flat_id(g.active_object_parts.active_object_parts_id_mapping,
                               g.prev_island_to_object_part_mapping[island_i])
        started == [g EXCEPT !.active_object_parts = accessed]
    IN  IF accessed.thrown THEN started
        ELSE CheckExternalLinesFrom(
                 CheckState(started, p.min_distance_between_support_points + UnitsPerMM),
                 1, island, island_i, part_id, z, p).g

-----------------------------------------------------------------------------
(* full_search: check_extrusions_and_build_graph, check_global_stability and
   the concatenation of their support points *)

\* The locals of check_global_stability.
CurrentGlobal ==
    GlobalState(CurrentUF, prev_island_to_object_part_mapping,
                next_island_to_object_part_mapping, prev_island_weakest_connection,
                next_island_weakest_connection, global_issues, supports_presence_grid,
                merge_calls)

SetGlobal(g) ==
    /\ SetUF(g.active_object_parts)
    /\ prev_island_to_object_part_mapping' = g.prev_island_to_object_part_mapping
    /\ next_island_to_object_part_mapping' = g.next_island_to_object_part_mapping
    /\ prev_island_weakest_connection' = g.prev_island_weakest_connection
    /\ next_island_weakest_connection' = g.next_island_weakest_connection
    /\ global_issues' = g.issues
    /\ supports_presence_grid' = g.supports_presence_grid
    /\ merge_calls' = g.merge_calls

\* check_global_stability before its first layer.
InitialGlobal(object, p) ==
    GlobalState(UF(0, << >>, << >>, FALSE), EmptyMap, EmptyMap, EmptyMap, EmptyMap, << >>,
                SupportGridFilter(object, p.min_distance_between_support_points), 0)

\* The flow width the pixel grid takes its resolution from.
GridResolution(object) == get_flow_width(object.region, "erExternalPerimeter")

\* reckon_islands up to the cleared index image of the current layer.
StartReckonIslands(layer, first_layer, lines_of_layer) ==
    /\ result' = BuildLayerIslands(layer, first_layer, lines_of_layer, po.region)
    /\ line_to_island_mapping' = LineToIslandMapping(lines_of_layer)
    /\ distributed_length' = [i \in 1..Len(lines_of_layer) |-> 0]

\* layer->regions()[0] is an element of the vector.
HasRegion(layer) == layer.regions > 0

\* The reads made before the loop over the layers are within range:
\* po->layers()[po->layer_count() - 1]->regions()[0], po->layers()[0], and
\* layer->regions()[0] in reckon_islands of the base layer.
BaseLayerReadable(object) ==
    /\ object.layers # << >>
    /\ HasRegion(object.layers[Len(object.layers)])
    /\ HasRegion(object.layers[1])

\* PREPARE BASE LAYER, and reckon_islands up to the parallel_for.
PrepareBaseLayer ==
    /\ pc = "base"
    /\ BaseLayerReadable(po)
    /\ layer_lines' = BaseLayerLines(po.layers[1])
    /\ prev_layer_grid' = PixelGrid(po, GridResolution(po))
    /\ current_layer_grid' = clear(PixelGrid(po, GridResolution(po)))
    /\ \E base_lines \in {BaseLayerLines(po.layers[1])} :
           StartReckonIslands(po.layers[1], TRUE, base_lines)
    /\ pc' = "raster"
    /\ UNCHANGED <<po, layer_idx, external_lines, local_issues, islands_graph, island_idx, output>>
    /\ UNCHANGED <<uf_vars, caller_vars, local_vars, global_vars>>

\* One iteration of the while loop of one of the distribute_edge calls of the
\* parallel_for: any call that has not returned may take the step.
DistributeEdge ==
    /\ pc = "raster"
    /\ \E i \in 1..Len(layer_lines) :
          /\ ~EdgeDistributed(layer_lines[i].a, layer_lines[i].b, distributed_length[i])
          /\ current_layer_grid' =
                 WritePixel(current_layer_grid,
                            EdgeLocation(current_layer_grid, layer_lines[i].a, layer_lines[i].b,
                                         distributed_length[i]),
                            line_to_island_mapping[i])
          /\ distributed_length' =
                 [distributed_length EXCEPT ![i] =
                     EdgeNextLength(current_layer_grid, layer_lines[i].a, layer_lines[i].b, @)]
    /\ UNCHANGED <<po, pc, layer_idx, layer_lines, external_lines, local_issues, islands_graph,
                   prev_layer_grid, line_to_island_mapping, result, island_idx, output>>
    /\ UNCHANGED <<uf_vars, caller_vars, local_vars, global_vars>>

\* A fault: the loop over the layers ends when the caller wants to cancel.
MoreLayers_UnlessInterrupted(object, idx) == ~interrupt /\ idx + 1 < Len(object.layers)

\* The loop over the layers goes on: layer_idx < po->layer_count()
MoreLayers(object, idx) == idx + 1 < Len(object.layers)

\* All calls of distribute_edge have returned.
RasterDone ==
    \A i \in 1..Len(layer_lines) :
        EdgeDistributed(layer_lines[i].a, layer_lines[i].b, distributed_length[i])

\* The sweep over the pixels, the return of reckon_islands and the end of the
\* body of the loop over the layers; after the last layer check_global_stability
\* is entered.
FinishLayer ==
    /\ pc = "raster"
    /\ RasterDone
    /\ islands_graph' = Append(islands_graph, WithConnections(result, current_layer_grid, prev_layer_grid))
    /\ external_lines' = layer_lines
    /\ layer_lines' = << >>
    /\ prev_layer_grid' = current_layer_grid
    /\ IF MoreLayers(po, layer_idx)
       THEN /\ layer_idx' = layer_idx + 1
            /\ pc' = "layer"
            /\ UNCHANGED <<island_idx, uf_vars, global_vars>>
       ELSE /\ layer_idx' = 0
            /\ island_idx' = 1
            /\ pc' = "assign"
            /\ \E g \in {InitialGlobal(po, params)} : SetGlobal(g)
    /\ UNCHANGED <<po, local_issues, current_layer_grid, line_to_island_mapping, result,
                   distributed_length, output>>
    /\ UNCHANGED <<caller_vars, local_vars>>

\* The body of the loop over the layers above the base layer, up to the
\* parallel_for of reckon_islands.
CheckLayerExtrusions ==
    /\ pc = "layer"
    /\ HasRegion(po.layers[layer_idx + 1])
    /\ \E checked \in {CheckLayer(po.layers[layer_idx + 1], po.region, external_lines,
                                  local_issues, params)} :
           /\ layer_lines' = checked.checked_lines_out
           /\ local_issues' = checked.issues
           /\ StartReckonIslands(po.layers[layer_idx + 1], FALSE, checked.checked_lines_out)
    /\ current_layer_grid' = clear(prev_layer_grid)
    /\ pc' = "raster"
    /\ UNCHANGED <<po, layer_idx, external_lines, islands_graph, prev_layer_grid, island_idx, output>>
    /\ UNCHANGED <<uf_vars, caller_vars, local_vars, global_vars>>

\* The caller comes to want the run cancelled while full_search is between two
\* layers, in the loop over the layers of the object or in the loop over the
\* layers of the graph.  full_search has no parameter to learn of it.
RequestInterrupt ==
    /\ ~interrupt
    /\ \/ pc = "raster" /\ RasterDone /\ MoreLayers(po, layer_idx)
       \/ pc = "layer"
       \/ /\ pc = "check"
          /\ ~thrown
          /\ island_idx > Len(islands_graph[layer_idx + 1].islands)
          /\ layer_idx + 1 < Len(islands_graph)
    /\ interrupt' = TRUE
    /\ UNCHANGED <<uf_vars, params, local_vars, pipe_vars>>

\* A fault: the local support points come first.
Concatenate_LocalFirst(global_points, local_points) == local_points \o global_points

\* global_issues.support_points.insert(end, local_issues.support_points ...)
Concatenate(global_points, local_points) == global_points \o local_points

\* A support point made of indeterminate values.
IndeterminatePoint == SupportPoint(<<0, 0, 0>>, 0, <<0, 0, 0>>)

\* A read of an element that a vector does not have: of layers() of an object
\* without layers, or of regions() of a layer without regions.  The behaviour
\* is undefined: the program is ended, or it goes on with what the read gave
\* and returns with any support points.
OutOfRangeRead ==
    /\ \/ pc = "base" /\ ~BaseLayerReadable(po)
       \/ pc = "layer" /\ ~HasRegion(po.layers[layer_idx + 1])
    /\ \/ pc' = "crashed" /\ UNCHANGED <<local_issues, output>>
       \/ /\ pc' = "done"
          /\ local_issues' \in {<< >>, <<IndeterminatePoint>>}
          /\ output' = Concatenate(global_issues, local_issues')
    /\ UNCHANGED <<po, layer_idx, island_idx, layer_lines, external_lines, islands_graph,
                   prev_layer_grid, current_layer_grid, line_to_island_mapping, result,
                   distributed_length>>
    /\ UNCHANGED <<uf_vars, caller_vars, local_vars, global_vars>>

\* The values *parts_ids.begin() may have for the island.
FinalPartIds(g, island) ==
    IF DOMAIN island.connected_islands = {} THEN {0} ELSE PartsIds(g, island)

\* The body of the first loop over the islands of a layer of the graph.
GlobalAssignIsland ==
    /\ pc = "assign"
    /\ ~thrown
    /\ island_idx <= Len(islands_graph[layer_idx + 1].islands)
    /\ \E final_part_id \in FinalPartIds(CurrentGlobal, islands_graph[layer_idx + 1].islands[island_idx]) :
          \E g \in {AssignIsland(CurrentGlobal, islands_graph[layer_idx + 1].islands[island_idx],
                               island_idx, final_part_id, islands_graph[layer_idx + 1].layer_z)} :
              SetGlobal(g)
    /\ island_idx' = island_idx + 1
    /\ UNCHANGED <<pc, layer_idx, output, pipe_frame, caller_vars, local_vars>>

\* Between the two loops over the islands: the mappings are handed over.
GlobalSwapMappings ==
    /\ pc = "assign"
    /\ ~thrown
    /\ island_idx > Len(islands_graph[layer_idx + 1].islands)
    /\ \E g \in {SwapMappings(CurrentGlobal)} : SetGlobal(g)
    /\ island_idx' = 1
    /\ pc' = "check"
    /\ UNCHANGED <<layer_idx, output, pipe_frame, caller_vars, local_vars>>

\* The body of the second loop over the islands of a layer of the graph.
GlobalCheckIsland ==
    /\ pc = "check"
    /\ ~thrown
    /\ island_idx <= Len(islands_graph[layer_idx + 1].islands)
    /\ \E g \in {CheckIsland(CurrentGlobal, islands_graph[layer_idx + 1].islands[island_idx],
                             island_idx, islands_graph[layer_idx + 1].layer_z, params)} :
           SetGlobal(g)
    /\ island_idx' = island_idx + 1
    /\ UNCHANGED <<pc, layer_idx, output, pipe_frame, caller_vars, local_vars>>

\* The end of the iteration over a layer of the graph.
GlobalNextLayer ==
    /\ pc = "check"
    /\ ~thrown
    /\ island_idx > Len(islands_graph[layer_idx + 1].islands)
    /\ island_idx' = 1
    /\ IF layer_idx + 1 < Len(islands_graph)
       THEN layer_idx' = layer_idx + 1 /\ pc' = "assign"
       ELSE layer_idx' = layer_idx /\ pc' = "concat"
    /\ UNCHANGED <<output, pipe_frame, uf_vars, global_vars, caller_vars, local_vars>>

\* full_search: the support points of the two passes are concatenated and returned.
ReturnIssues ==
    /\ pc = "concat"
    /\ output' = Concatenate(global_issues, local_issues)
    /\ pc' = "done"
    /\ UNCHANGED <<layer_idx, island_idx, pipe_frame, uf_vars, global_vars, caller_vars, local_vars>>

-----------------------------------------------------------------------------
(* The print objects full_search is run on *)

\* The width of all flows: 0.4 mm.  It is the pixel size of the grid as well.
ObjectWidth == (4 * UnitsPerMM) \div 10

\* The pitch of the lattice the paths are drawn on: half a pixel.
HalfPixel == ObjectWidth \div 2

\* The height of a layer: 0.2 mm.
LayerHeight == ObjectWidth \div 2

\* The largest x of the lattice, in pitches; the smallest is -2.
LatticeMaxX == 1

LatticePoints == {<<i * HalfPixel, j * HalfPixel>> : i \in (-2)..LatticeMaxX, j \in 0..1}

\* The lines between two lattice points.
LatticeLines ==
    {pq \in LatticePoints \X LatticePoints : pq[1] # pq[2] /\ AxisParallel(pq[1], pq[2])}

\* An open path of external perimeter through the points.
Perimeter(id, points) ==
    Entity(id, "erExternalPerimeter", points, ObjectWidth * LayerHeight, FALSE)

\* Layer number n (from 1) with the perimeters.
PerimeterLayer(n, perimeters) == Layer(n * LayerHeight, perimeters, << >>)

\* An object of the layers, of size 8 x 8 pitches.
ObjectOf(layers) ==
    PrintObject(layers, <<4 * HalfPixel, 4 * HalfPixel>>, Len(layers) * LayerHeight, ObjectWidth)

\* No object.
NoObject == PrintObject(<< >>, <<0, 0>>, 0, 0)

\* The objects of one line, and of one line over a line of the row y = 0.
LineObjects ==
    {ObjectOf(<<PerimeterLayer(1, <<Perimeter(11, <<l[1], l[2]>>)>>)>>) :
        l \in {m \in LatticeLines : m[1][2] = 0 /\ m[2][2] = 0}}
    \cup
    {ObjectOf(<<PerimeterLayer(1, <<Perimeter(11, <<l[1][1], l[1][2]>>)>>),
                PerimeterLayer(2, <<Perimeter(21, <<l[2][1], l[2][2]>>)>>)>>) :
        l \in {m \in LatticeLines \X LatticeLines : m[1][1][2] = 0 /\ m[1][2][2] = 0}}

\* One layer: a square loop of side one pixel.
SquareObject ==
    ObjectOf(<<PerimeterLayer(1,
        <<Entity(11, "erExternalPerimeter",
                 <<<<-HalfPixel, -HalfPixel>>, <<HalfPixel, -HalfPixel>>,
                   <<HalfPixel, HalfPixel>>, <<-HalfPixel, HalfPixel>>>>,
                 ObjectWidth * LayerHeight, TRUE)>>)>>)

\* One layer: the square loop where all of it lies in one cell of the
\* SupportGridFilter (the cells are 1 mm wide and start at -0.8 mm).
SquareInCellObject ==
    ObjectOf(<<PerimeterLayer(1,
        <<Entity(11, "erExternalPerimeter",
                 <<<<-3 * HalfPixel, -3 * HalfPixel>>, <<-HalfPixel, -3 * HalfPixel>>,
                   <<-HalfPixel, -HalfPixel>>, <<-3 * HalfPixel, -HalfPixel>>>>,
                 ObjectWidth * LayerHeight, TRUE)>>)>>)

\* Three short lines in a row, and a long line over all of them.
ThreePartsObject ==
    ObjectOf(<<PerimeterLayer(1,
                  <<Perimeter(11, <<<<-4 * HalfPixel, 0>>, <<-3 * HalfPixel, 0>>>>),
                    Perimeter(12, <<<<-HalfPixel, 0>>, <<0, 0>>>>),
                    Perimeter(13, <<<<2 * HalfPixel, 0>>, <<3 * HalfPixel, 0>>>>)>>),
               PerimeterLayer(2,
                  <<Perimeter(21, <<<<-4 * HalfPixel, 0>>, <<3 * HalfPixel, 0>>>>)>>)>>)

\* Two short lines, and a line over both of them.
TwoPartsObject ==
    ObjectOf(<<PerimeterLayer(1,
                  <<Perimeter(11, <<<<-4 * HalfPixel, 0>>, <<-3 * HalfPixel, 0>>>>),
                    Perimeter(12, <<<<-HalfPixel, 0>>, <<0, 0>>>>)>>),
               PerimeterLayer(2,
                  <<Perimeter(21, <<<<-4 * HalfPixel, 0>>, <<0, 0>>>>)>>)>>)

\* A line, and over it two perimeters side by side that lie in one pixel.
RivalsObject ==
    ObjectOf(<<PerimeterLayer(1,
                  <<Perimeter(11, <<<<-2 * HalfPixel, 0>>, <<0, 0>>>>)>>),
               PerimeterLayer(2,
                  <<Perimeter(21, <<<<0, 0>>, <<-2 * HalfPixel, 0>>>>),
                    Perimeter(22, <<<<-2 * HalfPixel, HalfPixel>>, <<-HalfPixel, HalfPixel>>>>)>>)>>)

\* One layer of three open external perimeters: the first point of the first
\* is to the left of the third, the first point of the third to the left of
\* the second.
ThreeWallsObject ==
    ObjectOf(<<PerimeterLayer(1,
                  <<Perimeter(11, <<<<-2 * HalfPixel, 0>>, <<-2 * HalfPixel, HalfPixel>>>>),
                    Perimeter(12, <<<<-HalfPixel, HalfPixel>>, <<-HalfPixel, 0>>>>),
                    Perimeter(13, <<<<HalfPixel, HalfPixel>>, <<0, HalfPixel>>>>)>>)>>)

\* One layer: a line of a path whose min_mm3_per_mm is below EPSILON.
ThinFlowObject ==
    ObjectOf(<<PerimeterLayer(1,
                  <<Entity(11, "erExternalPerimeter", <<<<0, 0>>, <<HalfPixel, 0>>>>, 0, FALSE)>>)>>)

\* A short line; over one end of it an angle; over the angle the same angle.
TowerObject ==
    ObjectOf(<<PerimeterLayer(1, <<Perimeter(11, <<<<-2 * HalfPixel, 0>>, <<-HalfPixel, 0>>>>)>>),
               PerimeterLayer(2, <<Perimeter(21, <<<<-2 * HalfPixel, 0>>, <<0, 0>>,
                                                   <<0, 2 * HalfPixel>>>>)>>),
               PerimeterLayer(3, <<Perimeter(31, <<<<-2 * HalfPixel, 0>>, <<0, 0>>,
                                                   <<0, 2 * HalfPixel>>>>)>>)>>)

\* A short line; over it a short line, and aside of it a line over nothing;
\* over both of them an angle.
JoinObject ==
    ObjectOf(<<PerimeterLayer(1, <<Perimeter(11, <<<<-2 * HalfPixel, 0>>, <<-HalfPixel, 0>>>>)>>),
               PerimeterLayer(2, <<Perimeter(21, <<<<-2 * HalfPixel, 0>>, <<-HalfPixel, 0>>>>),
                                   Perimeter(22, <<<<2 * HalfPixel, -2 * HalfPixel>>,
                                                   <<2 * HalfPixel, -3 * HalfPixel>>>>)>>),
               PerimeterLayer(3, <<Perimeter(31, <<<<-2 * HalfPixel, 0>>, <<2 * HalfPixel, 0>>,
                                                   <<2 * HalfPixel, -3 * HalfPixel>>>>)>>)>>)

\* Two layers of an external perimeter, an inner perimeter on its left and a
\* solid infill on its right.
MixedLayer(n) ==
    Layer(n * LayerHeight,
          <<Perimeter(10 * n + 1, <<<<-2 * HalfPixel, 0>>, <<0, 0>>>>),
            Entity(10 * n + 2, "erPerimeter", <<<<-2 * HalfPixel, HalfPixel>>, <<0, HalfPixel>>>>,
                   ObjectWidth * LayerHeight, FALSE)>>,
          <<Entity(10 * n + 3, "erSolidInfill", <<<<-HalfPixel, -HalfPixel>>, <<0, -HalfPixel>>>>,
                   ObjectWidth * LayerHeight, FALSE)>>)

MixedObject == ObjectOf(<<MixedLayer(1), MixedLayer(2)>>)

\* Two layers of two inner perimeters and no external perimeter.
InnerLayer(n) ==
    Layer(n * LayerHeight,
          <<Entity(10 * n + 1, "erPerimeter", <<<<-2 * HalfPixel, 0>>, <<0, 0>>>>,
                   ObjectWidth * LayerHeight, FALSE),
            Entity(10 * n + 2, "erPerimeter", <<<<-2 * HalfPixel, HalfPixel>>, <<-HalfPixel, HalfPixel>>>>,
                   ObjectWidth * LayerHeight, FALSE)>>,
          << >>)

InnerObject == ObjectOf(<<InnerLayer(1), InnerLayer(2)>>)

\* A line, a layer of nothing, and over it the line again.
GapObject ==
    ObjectOf(<<PerimeterLayer(1, <<Perimeter(11, <<<<-2 * HalfPixel, 0>>, <<0, 0>>>>)>>),
               PerimeterLayer(2, << >>),
               PerimeterLayer(3, <<Perimeter(31, <<<<-2 * HalfPixel, 0>>, <<0, 0>>>>)>>)>>)

\* Four layers of a path of a long and a short segment, each layer half a
\* pixel to the right of the layer below.
StairsLayer(n) ==
    PerimeterLayer(n, <<Perimeter(10 * n + 1, <<<<-2 * HalfPixel, (1 - n) * HalfPixel>>,
                                                <<0, (1 - n) * HalfPixel>>,
                                                <<HalfPixel, (1 - n) * HalfPixel>>>>)>>)

StairsObject == ObjectOf(<<StairsLayer(1), StairsLayer(2), StairsLayer(3), StairsLayer(4)>>)

\* Two lines in a row; over the first of them a short line, and a long line
\* over both of them.
ForkObject ==
    ObjectOf(<<PerimeterLayer(1, <<Perimeter(11, <<<<-4 * HalfPixel, 0>>, <<0, 0>>>>),
                                   Perimeter(12, <<<<2 * HalfPixel, 0>>, <<3 * HalfPixel, 0>>>>)>>),
               PerimeterLayer(2, <<Perimeter(21, <<<<-4 * HalfPixel, 0>>, <<-3 * HalfPixel, 0>>>>),
                                   Perimeter(22, <<<<-HalfPixel, 0>>, <<3 * HalfPixel, 0>>>>)>>)>>)

\* One layer: a path of one segment that has no length.
DotObject == ObjectOf(<<PerimeterLayer(1, <<Perimeter(11, <<<<0, 0>>, <<0, 0>>>>)>>)>>)

Objects ==
    LineObjects \cup {ThreeWallsObject, SquareObject, SquareInCellObject, ThreePartsObject,
                      TwoPartsObject, RivalsObject, ThinFlowObject, DotObject,
                      TowerObject, JoinObject, MixedObject, InnerObject, GapObject, StairsObject,
                      ForkObject}

\* An object without layers.
NoLayersObject == ObjectOf(<< >>)

\* An object of one layer that has no region.
NoRegionsObject == ObjectOf(<<LayerWithoutRegions(LayerHeight)>>)

\* An object of one layer whose region has no extrusion entity.
NoEntitiesObject == ObjectOf(<<PerimeterLayer(1, << >>)>>)

\* An object whose middle layer has no region.
MissingRegionObject ==
    ObjectOf(<<PerimeterLayer(1, <<Perimeter(11, <<<<0, 0>>, <<HalfPixel, 0>>>>)>>),
               LayerWithoutRegions(2 * LayerHeight),
               PerimeterLayer(3, <<Perimeter(31, <<<<0, 0>>, <<HalfPixel, 0>>>>)>>)>>)

\* The objects that lack layers, regions or entities.
EmptyInputs == {NoLayersObject, NoRegionsObject, NoEntitiesObject, MissingRegionObject}

\* Params with a slow and gentle extruder.
GentleParams ==
    [SpecParams EXCEPT !.max_acceleration = 1,
                       !.standard_extruder_conflict_force = 450,
                       !.malformations_additive_conflict_extruder_force = 1000]

\* Params of a stiff material: a connection between layers yields late.
StiffParams == [GentleParams EXCEPT !.material_yield_strength = 4000]

-----------------------------------------------------------------------------
(* The pipeline at rest *)

\* The pipeline is not running.
PipeIdle ==
    /\ interrupt = FALSE
    /\ po = NoObject
    /\ pc = "idle"
    /\ layer_idx = 0
    /\ island_idx = 0
    /\ layer_lines = << >>
    /\ external_lines = << >>
    /\ local_issues = << >>
    /\ islands_graph = << >>
    /\ prev_layer_grid = PixelGrid(NoObject, 1)
    /\ current_layer_grid = PixelGrid(NoObject, 1)
    /\ line_to_island_mapping = << >>
    /\ result = [islands |-> << >>, layer_z |-> 0]
    /\ distributed_length = << >>
    /\ prev_island_to_object_part_mapping = EmptyMap
    /\ next_island_to_object_part_mapping = EmptyMap
    /\ prev_island_weakest_connection = EmptyMap
    /\ next_island_weakest_connection = EmptyMap
    /\ global_issues = << >>
    /\ supports_presence_grid = SupportGridFilter(NoObject, 1)
    /\ merge_calls = 0
    /\ output = << >>

-----------------------------------------------------------------------------
(* check_extrusion_entity_stability on one path, line by line *)

LocalIdle ==
    /\ entity = NoEntity
    /\ layer_z = 0
    /\ flow_width = 0
    /\ prev_layer_lines = << >>
    /\ lines = << >>
    /\ line_idx = 0
    /\ bridging_acc = Accumulator(0, 0, 0)
    /\ malformation_acc = Accumulator(0, 0, 0)
    /\ issues = << >>
    /\ checked_lines_out = << >>
    /\ local_pc = "idle"

\* Lines 351-375: the points are resampled and the accumulators set up.
LocalStart ==
    /\ local_pc = "start"
    /\ LET st == InitialLoopState(ResampledLines(entity.points, params.bridge_distance, entity),
                                  issues, params)
       IN  /\ lines' = st.lines
           /\ bridging_acc' = st.bridging_acc
           /\ malformation_acc' = st.malformation_acc
    /\ line_idx' = 1
    /\ local_pc' = "loop"
    /\ UNCHANGED <<entity, layer_z, flow_width, prev_layer_lines, issues, checked_lines_out>>
    /\ UNCHANGED <<uf_vars, caller_vars, pipe_vars>>

\* Lines 377-419: one iteration of the loop over the lines.
LocalCheckLine ==
    /\ local_pc = "loop"
    /\ line_idx <= Len(lines)
    /\ LET st == CheckLine(LoopState(lines, bridging_acc, malformation_acc, issues),
                           line_idx, layer_z, flow_width, prev_layer_lines, params)
       IN  /\ lines' = st.lines
           /\ bridging_acc' = st.bridging_acc
           /\ malformation_acc' = st.malformation_acc
           /\ issues' = st.support_points
    /\ line_idx' = line_idx + 1
    /\ UNCHANGED <<entity, layer_z, flow_width, prev_layer_lines, checked_lines_out, local_pc>>
    /\ UNCHANGED <<uf_vars, caller_vars, pipe_vars>>

\* Line 420: the lines are appended to checked_lines_out.
LocalFinish ==
    /\ local_pc = "loop"
    /\ line_idx > Len(lines)
    /\ checked_lines_out' = checked_lines_out \o lines
    /\ local_pc' = "done"
    /\ UNCHANGED <<entity, layer_z, flow_width, prev_layer_lines, lines, line_idx,
                   bridging_acc, malformation_acc, issues>>
    /\ UNCHANGED <<uf_vars, caller_vars, pipe_vars>>

\* The pitch of the lattice the paths of the local check are drawn on.
LocalPitch == 5

\* The lattice is (0..LocalNX) x (0..LocalNY) pitches.
LocalNX == 2

LocalNY == 1

\* The numbers of points of a path.
PathLengths == {2, 3}

LocalLattice == {<<i * LocalPitch, j * LocalPitch>> : i \in 0..LocalNX, j \in 0..LocalNY}

\* The paths: two or three lattice points, each pair axis-parallel.
LocalPaths ==
    UNION {{pts \in [1..n -> LocalLattice] :
               \A i \in 1..(n - 1) : AxisParallel(pts[i], pts[i + 1])} : n \in PathLengths}

\* The path the lines of the layer below come from.
PrevEntity == Entity(2, "erExternalPerimeter", << >>, 1, FALSE)

\* The lines of the layer below: none, or one lattice line that starts on the
\* row y = 0, malformed or not.
LocalPrevLayers ==
    {<< >>} \cup
    {<<[ExtrusionLine(pq[1], pq[2], PrevEntity) EXCEPT !.malformation = m]>> :
        pq \in {r \in LocalLattice \X LocalLattice :
                   r[1][2] = 0 /\ AxisParallel(r[1], r[2]) /\ r[1] # r[2]},
        m \in {0, 400}}

LocalBridgeDistances == {7, 12}

LocalFlowWidths == {3, 6}

\* Scenario 3: a path (0,0) -> (5,0) at z = 0.4 over the line (0,0) -> (0.5,0),
\* bridge_distance 2.0, flow width 0.4.
Scenario3Entity ==
    Entity(1, "erExternalPerimeter", <<<<0, 0>>, <<5 * UnitsPerMM, 0>>>>, 72, FALSE)

Scenario3Prev == <<ExtrusionLine(<<0, 0>>, <<UnitsPerMM \div 2, 0>>, PrevEntity)>>

Scenario3Width == (4 * UnitsPerMM) \div 10

Scenario3Z == (4 * UnitsPerMM) \div 10

IsScenario3 ==
    /\ entity = Scenario3Entity
    /\ prev_layer_lines = Scenario3Prev
    /\ flow_width = Scenario3Width
    /\ layer_z = Scenario3Z
    /\ params = SpecParams

LocalInit ==
    /\ UFEmpty
    /\ PipeIdle
    /\ \/ /\ \E pts \in LocalPaths : entity = Entity(1, "erPerimeter", pts, 1, FALSE)
          /\ prev_layer_lines \in LocalPrevLayers
          /\ \E w \in LocalFlowWidths : flow_width = get_flow_width(UniformRegion(w), "erPerimeter")
          /\ layer_z = 2
          /\ \E bd \in LocalBridgeDistances : params = [SpecParams EXCEPT !.bridge_distance = bd]
       \/ /\ entity = Scenario3Entity
          /\ prev_layer_lines = Scenario3Prev
          /\ flow_width = get_flow_width(UniformRegion(Scenario3Width), Scenario3Entity.role)
          /\ layer_z = Scenario3Z
          /\ params = SpecParams
    /\ lines = << >>
    /\ line_idx = 0
    /\ bridging_acc = Accumulator(0, 0, 0)
    /\ malformation_acc = Accumulator(0, 0, 0)
    /\ issues = << >>
    /\ checked_lines_out = << >>
    /\ local_pc = "start"

LocalNext == LocalStart \/ LocalCheckLine \/ LocalFinish

SpecLocal == LocalInit /\ [][LocalNext]_vars

-----------------------------------------------------------------------------
(* The union-find driven by an arbitrary caller *)

\* The most parts a caller inserts.
MaxParts == 3

\* The largest volume of an inserted island.
MaxVolume == 2

\* An island with nothing but a volume, as a caller of insert may pass.
BareIsland(v) ==
    [volume |-> v, volume_centroid_accumulator |-> Vec3Zero, sticking_area |-> 0,
     sticking_centroid_accumulator |-> Vec3Zero,
     sticking_second_moment_of_area_accumulator |-> Vec2Zero]

UFInit ==
    /\ UFEmpty
    /\ params = NoParams
    /\ LocalIdle
    /\ PipeIdle

UFInsert ==
    /\ ~thrown
    /\ next_part_idx < MaxParts
    /\ \E v \in 1..MaxVolume : SetUF(insert(CurrentUF, BareIsland(v)))
    /\ UNCHANGED <<caller_vars, local_vars, pipe_vars>>

\* merge(from, to) on two ids insert returned that lie in different sets.
UFMerge ==
    /\ ~thrown
    /\ \E from \in DOMAIN active_object_parts_id_mapping,
          to \in DOMAIN active_object_parts_id_mapping :
            /\ get_flat_id(active_object_parts_id_mapping, from)
                   # get_flat_id(active_object_parts_id_mapping, to)
            /\ SetUF(merge(CurrentUF, from, to))
    /\ UNCHANGED <<caller_vars, local_vars, pipe_vars>>

UFGetFlatId ==
    /\ ~thrown
    /\ \E id \in DOMAIN active_object_parts_id_mapping :
          /\ active_object_parts_id_mapping' =
                 get_flat_id_mapping(active_object_parts_id_mapping, id)
          /\ UNCHANGED <<next_part_idx, active_object_parts, thrown>>
    /\ UNCHANGED <<caller_vars, local_vars, pipe_vars>>

UFAccess ==
    /\ ~thrown
    /\ \E id \in DOMAIN active_object_parts_id_mapping : SetUF(access(CurrentUF, id))
    /\ UNCHANGED <<caller_vars, local_vars, pipe_vars>>

UFNext == UFInsert \/ UFMerge \/ UFGetFlatId \/ UFAccess

SpecUF == UFInit /\ [][UFNext]_vars

\* C1 (as claimed): after any inserts and merges, get_flat_id is idempotent and
\* the id it returns for an inserted id is the key of a live ObjectPart, so
\* that access never throws.
C1_FlatIdIsLive ==
    /\ ~thrown
    /\ \A x \in DOMAIN active_object_parts_id_mapping :
          LET r == get_flat_id(active_object_parts_id_mapping, x)
          IN  /\ get_flat_id(active_object_parts_id_mapping, r) = r
              /\ r \in DOMAIN active_object_parts

-----------------------------------------------------------------------------
(* full_search as a state machine *)

\* full_search is entered with one of the objects.
PipeInit(objects) ==
    /\ UFEmpty
    /\ LocalIdle
    /\ params \in {SpecParams, GentleParams, StiffParams}
    /\ po \in objects
    /\ interrupt = FALSE
    /\ pc = "base"
    /\ layer_idx = 0
    /\ island_idx = 0
    /\ layer_lines = << >>
    /\ external_lines = << >>
    /\ local_issues = << >>
    /\ islands_graph = << >>
    /\ prev_layer_grid = PixelGrid(NoObject, 1)
    /\ current_layer_grid = PixelGrid(NoObject, 1)
    /\ line_to_island_mapping = << >>
    /\ result = [islands |-> << >>, layer_z |-> 0]
    /\ distributed_length = << >>
    /\ prev_island_to_object_part_mapping = EmptyMap
    /\ next_island_to_object_part_mapping = EmptyMap
    /\ prev_island_weakest_connection = EmptyMap
    /\ next_island_weakest_connection = EmptyMap
    /\ global_issues = << >>
    /\ supports_presence_grid = SupportGridFilter(NoObject, 1)
    /\ merge_calls = 0
    /\ output = << >>

Init == PipeInit(Objects)

Next ==
    \/ PrepareBaseLayer
    \/ DistributeEdge
    \/ FinishLayer
    \/ CheckLayerExtrusions
    \/ GlobalAssignIsland
    \/ GlobalSwapMappings
    \/ GlobalCheckIsland
    \/ GlobalNextLayer
    \/ ReturnIssues
    \/ RequestInterrupt

Spec == Init /\ [][Next]_vars

\* full_search on the inputs that lack layers, regions or entities, and on an
\* object that lacks none of them.
InitEmpty == PipeInit(EmptyInputs \cup {TwoPartsObject})

NextEmpty ==
    \/ PrepareBaseLayer
    \/ DistributeEdge
    \/ FinishLayer
    \/ CheckLayerExtrusions
    \/ OutOfRangeRead
    \/ GlobalAssignIsland
    \/ GlobalSwapMappings
    \/ GlobalCheckIsland
    \/ GlobalNextLayer
    \/ ReturnIssues
    \/ RequestInterrupt

SpecEmpty == InitEmpty /\ [][NextEmpty]_vars

-----------------------------------------------------------------------------
(* Properties of full_search *)

\* The island the first loop of check_global_stability is at.
AssignedIsland == islands_graph[layer_idx + 1].islands[island_idx]

\* The first loop of check_global_stability is at an island that is connected
\* to islands of the layer below.
AssigningConnectedIsland ==
    /\ pc = "assign"
    /\ ~thrown
    /\ island_idx <= Len(islands_graph[layer_idx + 1].islands)
    /\ DOMAIN AssignedIsland.connected_islands # {}

\* The sum of the volumes of the parts of the ids.
RECURSIVE SumVolumes(_, _)
SumVolumes(parts, ids) ==
    IF ids = {} THEN 0
    ELSE LET i == CHOOSE j \in ids : TRUE
         IN  parts[i].volume + SumVolumes(parts, ids \ {i})

\* The step of an island connected to k >= 2 distinct parts.
C2_MergeStep ==
    \A ids \in {IF AssigningConnectedIsland THEN PartsIds(CurrentGlobal, AssignedIsland) ELSE {}} :
        Cardinality(ids) >= 2 =>
            /\ merge_calls' = merge_calls + Cardinality(ids) - 1
            /\ ~thrown'
            /\ \A a, b \in ids :
                   get_flat_id(active_object_parts_id_mapping', a)
                       = get_flat_id(active_object_parts_id_mapping', b)
            /\ \A a \in ids :
                   active_object_parts'[get_flat_id(active_object_parts_id_mapping', a)].volume
                       = SumVolumes(active_object_parts, ids) + AssignedIsland.volume

\* C2: when an island is connected to islands of k >= 2 distinct object parts,
\* merge is called exactly k - 1 times for it; afterwards get_flat_id gives the
\* same root for all k part ids, and the volume of the part at that root is the
\* sum of the volumes of the k parts plus the volume of the island.
C2_MergesAllParts == [][C2_MergeStep]_vars

\* Three parts have been merged into one by two calls of merge.
C2_Witness ==
    /\ po = ThreePartsObject
    /\ merge_calls = 2
    /\ Cardinality(DOMAIN active_object_parts) = 1

\* The cell of the filter a support point falls into.
CellOf(filter, point) == to_cell_index(filter, to_cell_coords(filter, point.position))

\* No two support points of the global pass fall into the same cell.
C3_DistinctCells ==
    \A i, j \in 1..Len(global_issues) :
        i # j => CellOf(supports_presence_grid, global_issues[i])
                     # CellOf(supports_presence_grid, global_issues[j])

\* The support points a step records were in cells not taken, which the step takes.
C3_RecordStep ==
    \A n \in (Len(global_issues) + 1)..Len(global_issues') :
        /\ CellOf(supports_presence_grid', global_issues'[n]) \notin supports_presence_grid.taken_cells
        /\ CellOf(supports_presence_grid', global_issues'[n]) \in supports_presence_grid'.taken_cells

\* C3: over the whole global pass no two recorded support points fall into the
\* same cell of the SupportGridFilter; a support is recorded only if its cell
\* was not taken, and the cell is taken in the same step.
C3_OneSupportPerCell == []C3_DistinctCells /\ [][C3_RecordStep]_vars

\* The global pass is over for the square that lies in one cell: its first
\* support point took the cell, and no other was recorded.
C3_Witness ==
    /\ po = SquareInCellObject
    /\ pc = "done"
    /\ Len(global_issues) = 1
    /\ Cardinality(supports_presence_grid.taken_cells) = 1

\* C4: full_search returns the support points of the global pass, in the order
\* it recorded them, followed by those of the local pass, in the order it
\* recorded them; none is dropped, duplicated or reordered.
C4_GlobalThenLocal ==
    pc = "done" =>
        /\ Len(output) = Len(global_issues) + Len(local_issues)
        /\ \A n \in 1..Len(global_issues) : output[n] = global_issues[n]
        /\ \A n \in 1..Len(local_issues) : output[Len(global_issues) + n] = local_issues[n]

\* full_search has returned points of both passes, and they differ.
C4_Witness ==
    /\ pc = "done"
    /\ global_issues # << >>
    /\ local_issues # << >>
    /\ global_issues \o local_issues # local_issues \o global_issues

\* C8: for every object of exactly one layer check_global_stability records no
\* support point.
C8_SingleLayerNoGlobalSupport == Len(po.layers) = 1 => global_issues = << >>

\* The least of a set of numbers.
MinOf(S) == CHOOSE m \in S : \A n \in S : m <= n

\* reckon_islands on a layer, the calls of distribute_edge run one after the
\* other in the order of the lines; st holds the graph, the lines of the layer
\* below, the support points and the grid of the layer below.
LayerInOrder(st, layer, first_layer, layer_ls, region) ==
    Bind(DistributeInOrder(clear(st.grid), layer_ls, LineToIslandMapping(layer_ls), 1),
         LAMBDA grid :
             [graph |-> Append(st.graph,
                               WithConnections(BuildLayerIslands(layer, first_layer, layer_ls, region),
                                               grid, st.grid)),
              lines |-> layer_ls, issues |-> st.issues, grid |-> grid])

\* check_extrusions_and_build_graph from layer number n on, in that order.
RECURSIVE GraphInOrderFrom(_, _, _, _)
GraphInOrderFrom(st, object, n, p) ==
    IF n > Len(object.layers) THEN st
    ELSE Bind(CheckLayer(object.layers[n], object.region, st.lines, st.issues, p),
              LAMBDA checked :
         Bind(LayerInOrder([st EXCEPT !.issues = checked.issues], object.layers[n], FALSE,
                           checked.checked_lines_out, object.region),
              LAMBDA next : GraphInOrderFrom(next, object, n + 1, p)))

GraphInOrder(object, p) ==
    Bind(LayerInOrder([graph |-> << >>, lines |-> << >>, issues |-> << >>,
                       grid |-> PixelGrid(object, GridResolution(object))],
                      object.layers[1], TRUE, BaseLayerLines(object.layers[1]), object.region),
         LAMBDA base : GraphInOrderFrom(base, object, 2, p))

\* The first loop over the islands of a layer of the graph, from island i on;
\* the final part is the one of the least id.
RECURSIVE AssignIslandsFrom(_, _, _, _)
AssignIslandsFrom(g, islands, i, z) ==
    IF i > Len(islands) THEN g
    ELSE Bind(AssignIsland(g, islands[i], i, MinOf(FinalPartIds(g, islands[i])), z),
              LAMBDA next : AssignIslandsFrom(next, islands, i + 1, z))

\* The second loop over the islands of a layer of the graph, from island i on.
RECURSIVE CheckIslandsFrom(_, _, _, _, _)
CheckIslandsFrom(g, islands, i, z, p) ==
    IF i > Len(islands) THEN g
    ELSE Bind(CheckIsland(g, islands[i], i, z, p),
              LAMBDA next : CheckIslandsFrom(next, islands, i + 1, z, p))

\* check_global_stability from layer number n of the graph on.
RECURSIVE GlobalFrom(_, _, _, _)
GlobalFrom(g, graph, n, p) ==
    IF n > Len(graph) THEN g
    ELSE Bind(AssignIslandsFrom(g, graph[n].islands, 1, graph[n].layer_z),
              LAMBDA assigned :
         Bind(CheckIslandsFrom(SwapMappings(assigned), graph[n].islands, 1, graph[n].layer_z, p),
              LAMBDA next : GlobalFrom(next, graph, n + 1, p)))

\* What full_search returns when the calls of distribute_edge of every layer
\* run one after the other.
FullSearchInOrder(object, p) ==
    Bind(GraphInOrder(object, p),
         LAMBDA built :
             Concatenate(GlobalFrom(InitialGlobal(object, p), built.graph, 1, p).issues,
                         built.issues))

\* C9: for a fixed input full_search returns the same support points for every
\* interleaving of the parallel calls of distribute_edge: the ones it returns
\* when the calls run one after the other.
C9_SameForEveryInterleaving == pc = "done" => output = FullSearchInOrder(po, params)

\* The rasterization phase of reckon_islands has completed.
RasterCompleted == pc = "raster" /\ RasterDone

\* The island id of line i is in a pixel of the grid of the current layer.
HoldsIslandOf(i) ==
    \E n \in DOMAIN current_layer_grid.pixels :
        current_layer_grid.pixels[n] = line_to_island_mapping[i]

RECURSIVE EdgePixelsFrom(_, _, _, _)
EdgePixelsFrom(grid, p1, p2, distributed) ==
    IF EdgeDistributed(p1, p2, distributed) THEN {}
    ELSE {to_pixel_index(grid, to_pixel_coords(grid, EdgeLocation(grid, p1, p2, distributed)))}
         \cup EdgePixelsFrom(grid, p1, p2, EdgeNextLength(grid, p1, p2, distributed))

\* The pixels the call of distribute_edge for line i writes.
EdgePixels(i) == EdgePixelsFrom(current_layer_grid, layer_lines[i].a, layer_lines[i].b, 0)

-----------------------------------------------------------------------------
(* Properties of reckon_islands *)

\* The islands reckon_islands returns for the layer whose rasterization has completed.
ReturnedIslands == islands_graph'[Len(islands_graph')].islands

\* The island ids in the pixels of a grid.
PixelIds(grid) == {grid.pixels[n] : n \in DOMAIN grid.pixels} \ {NULL_ISLAND}

\* The return of reckon_islands: the connections are the counts of the pixels.
C11_SweepStep ==
    (RasterCompleted /\ Len(islands_graph') = Len(islands_graph) + 1) =>
        /\ Len(ReturnedIslands) = Len(result.islands)
        /\ \A n \in DOMAIN current_layer_grid.pixels :
               current_layer_grid.pixels[n] # NULL_ISLAND /\ prev_layer_grid.pixels[n] # NULL_ISLAND
                   => current_layer_grid.pixels[n] \in 1..Len(ReturnedIslands)
        /\ \A cur \in 1..Len(ReturnedIslands) :
               /\ DOMAIN ReturnedIslands[cur].connected_islands \subseteq PixelIds(prev_layer_grid)
               /\ \A prev \in PixelIds(prev_layer_grid) :
                      \A pixels \in {OverlappingPixels(current_layer_grid, prev_layer_grid, cur, prev)} :
                          IF pixels = {}
                          THEN prev \notin DOMAIN ReturnedIslands[cur].connected_islands
                          ELSE /\ prev \in DOMAIN ReturnedIslands[cur].connected_islands
                               /\ ReturnedIslands[cur].connected_islands[prev].area
                                      = pixel_area(current_layer_grid) * Cardinality(pixels)

\* C11: for every pair (cur, prev) the area of islands[cur].connected_islands[prev]
\* is pixel_area times the number of pixels that hold cur in the current grid
\* and prev in the previous one; a pair with no such pixel has no entry, and
\* every pixel that is not empty in both grids counts for exactly one pair.
C11_AreaCountsPixels == [][C11_SweepStep]_vars

\* An island of the graph has a connection of two pixels or more.
C11_Witness ==
    \E l \in 1..Len(islands_graph) :
        \E cur \in 1..Len(islands_graph[l].islands) :
            \E prev \in DOMAIN islands_graph[l].islands[cur].connected_islands :
                islands_graph[l].islands[cur].connected_islands[prev].area
                    >= 2 * pixel_area(current_layer_grid)

\* Every pixel of the grid that is not empty holds an island of the islands.
ValidPixels(grid, islands) ==
    \A n \in DOMAIN grid.pixels :
        grid.pixels[n] # NULL_ISLAND => grid.pixels[n] \in 1..Len(islands)

\* The lookups of the first loop of check_global_stability at its island find their keys.
LookupsFindKeys ==
    (pc = "assign" /\ island_idx <= Len(islands_graph[layer_idx + 1].islands)) =>
        \A key \in DOMAIN AssignedIsland.connected_islands :
            /\ key \in DOMAIN prev_island_to_object_part_mapping
            /\ key \in DOMAIN prev_island_weakest_connection

\* C12: every pixel that is not empty in the grid reckon_islands returns holds
\* an island index of the layer; so every key of connected_islands of an
\* island of layer n is an island index of layer n - 1, and the lookups of
\* check_global_stability by these keys do not fail.
C12_PixelsAndKeysValid ==
    /\ pc \in {"raster", "layer"} => ValidPixels(current_layer_grid, result.islands)
    /\ islands_graph # << >> =>
           ValidPixels(prev_layer_grid, islands_graph[Len(islands_graph)].islands)
    /\ \A l \in 1..Len(islands_graph) :
           \A cur \in 1..Len(islands_graph[l].islands) :
               \A key \in DOMAIN islands_graph[l].islands[cur].connected_islands :
                   l > 1 /\ key \in 1..Len(islands_graph[l - 1].islands)
    /\ LookupsFindKeys
    /\ ~thrown

\* check_global_stability looks up the part and the weakest connection of an
\* island of the layer below.
C12_Witness ==
    /\ pc = "assign"
    /\ layer_idx >= 1
    /\ island_idx <= Len(islands_graph[layer_idx + 1].islands)
    /\ DOMAIN AssignedIsland.connected_islands # {}

\* island_extrusions after the extrusions that are not external are assigned.
AssignedExtrusions(layer_ls) ==
    Bind(ExtrusionsFrom(layer_ls, 1, NoEntity, << >>), LAMBDA extrusions :
        AssignExtrusionsFrom(layer_ls, extrusions, SeedIslands(layer_ls, extrusions),
                             SeedIslandExtrusions(layer_ls, extrusions), 1))

\* The extrusions of the islands numbered in ks.
ExtrusionsOf(island_extrusions, ks) ==
    UNION {{island_extrusions[k][n] : n \in 1..Len(island_extrusions[k])} : k \in ks}

\* The first point of candidate j lies inside candidate i.
Contains(layer_ls, i, j) ==
    Bind(SeedIslands(layer_ls, ExtrusionsFrom(layer_ls, 1, NoEntity, << >>)), LAMBDA islands :
        i # j /\ IsInside(islands[i], islands[j][1].a))

\* After the merge the extrusions of candidates i and j are in the same
\* islands, and in one at least.
MergedTogether(layer_ls, i, j) ==
    \A assigned \in {AssignedExtrusions(layer_ls)} :
    \A final \in {IslandExtrusions(layer_ls)} :
        /\ \E k \in 1..Len(final) :
               ExtrusionsOf(assigned, {i, j}) \subseteq ExtrusionsOf(final, {k})
        /\ \A k \in 1..Len(final) :
               ExtrusionsOf(final, {k}) \cap ExtrusionsOf(assigned, {j}) # {}
                   => ExtrusionsOf(assigned, {i}) \subseteq ExtrusionsOf(final, {k})

\* C13: if the first point of candidate island j lies inside candidate island
\* i, then after the merge of the nested islands all extrusions of j are in the
\* island of the extrusions of i, and no other island has extrusions of j,
\* whatever the order of the candidates and however deep the nesting.
C13_NestedIslandsMerged ==
    pc = "raster" =>
        \A i, j \in 1..Len(AssignedExtrusions(layer_lines)) :
            Contains(layer_lines, i, j) => MergedTogether(layer_lines, i, j)

-----------------------------------------------------------------------------
(* Properties of is_stable_while_extruding and of its use *)

\* The second loop of check_global_stability is at an island.
CheckingIsland ==
    /\ pc = "check"
    /\ ~thrown
    /\ island_idx <= Len(islands_graph[layer_idx + 1].islands)

\* The island the second loop of check_global_stability is at.
CheckedIsland == islands_graph[layer_idx + 1].islands[island_idx]

\* The part of that island, and its weakest connection.
CheckedPart ==
    active_object_parts[get_flat_id(active_object_parts_id_mapping,
                                    prev_island_to_object_part_mapping[island_idx])]

CheckedConnection == prev_island_weakest_connection[island_idx]

\* What is_stable_while_extruding returns for an external line of the island.
StabilityOf(line) ==
    is_stable_while_extruding(CheckedPart, CheckedConnection, line,
                              islands_graph[layer_idx + 1].layer_z, params)

\* The external lines of the island that have a length.
CheckedLines ==
    {CheckedIsland.external_lines[k] :
        k \in {n \in 1..Len(CheckedIsland.external_lines) : CheckedIsland.external_lines[n].len > 0}}

\* C14 as stated: is_stable_while_extruding returns a value >= 0.
C14_ForceNonNegative ==
    CheckingIsland => \A line \in CheckedLines : ~StabilityOf(line).nan /\ StabilityOf(line).value >= 0

\* Every support point the global pass has recorded has a force > 0.
RecordedForcesPositive ==
    \A n \in 1..Len(global_issues) : global_issues[n].force > 0

\* If is_stable_while_extruding returns no value > 0 for the lines of an island,
\* no support point is recorded for the island.
C14_CheckStep ==
    (CheckingIsland /\ \A line \in CheckedLines : ~StabilityOf(line).positive)
        => global_issues' = global_issues

\* C14, amended: is_stable_while_extruding returns a value > 0 when a support
\* is required; for a stable part the value is not > 0, and it may be negative
\* (the signed ratio of the weak-connection case) or NaN.  A support point is
\* recorded only for a value > 0, so every recorded force is > 0.
C14_SupportOnlyIfPositive == []RecordedForcesPositive /\ [][C14_CheckStep]_vars

\* The island under check is stable, with a negative ratio, and was left
\* without a support point.
C14_Witness ==
    /\ CheckingIsland
    /\ \E line \in CheckedLines : ~StabilityOf(line).nan /\ StabilityOf(line).value < 0
    /\ \A line \in CheckedLines : ~StabilityOf(line).positive

\* The island under check belongs to a part that sticks to nothing, and has a
\* line with a length.
CheckingHangingPart ==
    /\ CheckingIsland
    /\ ~access(CurrentUF, prev_island_to_object_part_mapping[island_idx]).thrown
    /\ CheckedPart.sticking_area < 1
    /\ CheckedLines # {}

\* C15 as stated: a part whose sticking_area is zero gets a stable verdict, and
\* the global pass plants no support point for a line of it.
C15_HangingPartUnsupported == [][CheckingHangingPart => global_issues' = global_issues]_vars

\* The first external line of the island under check that has a length: the
\* loop over the external lines does not skip it.
FirstCheckedLine ==
    CheckedIsland.external_lines[
        MinOf({k \in 1..Len(CheckedIsland.external_lines) : CheckedIsland.external_lines[k].len > 0})]

\* The support point that is planted for the first checked line.
FirstSupportPoint ==
    SupportPoint(to_3d(TargetPoint(CheckedIsland, FirstCheckedLine), islands_graph[layer_idx + 1].layer_z),
                 ForceUnit,
                 to_3d(Normalized(Vec2Sub(FirstCheckedLine.b, FirstCheckedLine.a)), 0))

\* For a part that sticks to nothing the first checked line gets a support
\* point of force 1.0, unless the cell of the point is taken.
C15_CheckStep ==
    (CheckingHangingPart /\ ~position_taken(supports_presence_grid, FirstSupportPoint.position))
        => /\ Len(global_issues') > Len(global_issues)
           /\ global_issues'[Len(global_issues) + 1] = FirstSupportPoint

\* C15, amended: for a part whose sticking_area is below epsilon the stability
\* test of an extruded line returns 1.0, an unstable verdict: the global pass
\* plants a support point of force 1.0 for the first line it checks, unless the
\* cell of the support point is already taken.
C15_HangingPartSupported == [][C15_CheckStep]_vars

\* A support point of force 1.0 was planted for a part that stuck to nothing.
C15_Witness ==
    /\ pc = "check"
    /\ ~thrown
    /\ island_idx > 1
    /\ global_issues # << >>
    /\ global_issues[Len(global_issues)].force = ForceUnit
    /\ active_object_parts[get_flat_id(active_object_parts_id_mapping,
                                       prev_island_to_object_part_mapping[island_idx - 1])
                          ].sticking_area = SupportArea(params)

-----------------------------------------------------------------------------
(* Inputs that lack layers, regions or entities *)

\* The object has no layer, or a layer without regions, or no extrusion entity.
EmptyInput(object) ==
    \/ object.layers = << >>
    \/ \E n \in 1..Len(object.layers) : ~HasRegion(object.layers[n])
    \/ \A n \in 1..Len(object.layers) :
           object.layers[n].perimeters = << >> /\ object.layers[n].fills = << >>

\* C16: on an object without layers, with a layer without regions or without
\* extrusion entities full_search makes no read out of range, is not ended
\* abnormally, and what it returns has no support points.
C16_EmptyInputReturnsEmpty ==
    EmptyInput(po) => pc # "crashed" /\ (pc = "done" => output = << >>)

-----------------------------------------------------------------------------
(* The divisions of the global pass *)

\* C17: the divisions by a volume or an area that no test precedes are reached
\* with a divisor above epsilon only: the division by the volume of the part
\* in the stability test of a line, and the divisions by the areas of the two
\* connections in estimate_strength.  (The divisions by sticking_area and by
\* the area of the weakest connection follow a test of the divisor.)
C17_DivisorsAboveEpsilon ==
    /\ (CheckingIsland /\ CheckedLines # {}) => CheckedPart.volume >= 1
    /\ AssigningConnectedIsland =>
           /\ SumConnections(prev_island_weakest_connection,
                             DOMAIN AssignedIsland.connected_islands).area >= 1
           /\ SumConnections(AssignedIsland.connected_islands,
                             DOMAIN AssignedIsland.connected_islands).area >= 1

-----------------------------------------------------------------------------
(* Cancellation *)

\* Once the caller wants the run cancelled no further layer is begun, neither
\* of the object nor of the graph.
C18_InterruptStep ==
    interrupt => ~(pc = "layer" /\ pc' = "raster") /\ ~(pc = "check" /\ pc' = "assign")

-----------------------------------------------------------------------------
(* The volume of the islands *)

\* C19: every island that reckon_islands has put into the LayerIslands of a
\* layer has volume > 0, also when a path of the layer has segments without
\* length only.
C19_IslandsHaveVolume ==
    /\ \A i \in 1..Len(result.islands) : result.islands[i].volume > 0
    /\ \A n \in 1..Len(islands_graph) :
           \A i \in 1..Len(islands_graph[n].islands) : islands_graph[n].islands[i].volume > 0

-----------------------------------------------------------------------------
(* The graph of connections *)

\* The connections of a graph: for every island of every layer, the islands of
\* the layer below it is connected to and the area of each connection.
ConnectionAreas(graph) ==
    [n \in 1..Len(graph) |->
        [i \in 1..Len(graph[n].islands) |->
            [k \in DOMAIN graph[n].islands[i].connected_islands |->
                graph[n].islands[i].connected_islands[k].area]]]

\* C20: the connections that reckon_islands finds, their keys and their areas,
\* are the same for every interleaving of the calls of distribute_edge: the
\* ones found when the calls run one after the other.
C20_SameGraphForEveryInterleaving ==
    pc = "concat" => ConnectionAreas(islands_graph) = ConnectionAreas(GraphInOrder(po, params).graph)

-----------------------------------------------------------------------------
(* The weakest connection of an island *)

\* The sum of the weakest connections of the islands the assigned island is
\* connected to, and the sum of its connections to them.
TransferedWeakest ==
    SumConnections(prev_island_weakest_connection, DOMAIN AssignedIsland.connected_islands)

NewWeakest ==
    SumConnections(AssignedIsland.connected_islands, DOMAIN AssignedIsland.connected_islands)

\* The weakest connection the step records for the assigned island.
RecordedWeakest == next_island_weakest_connection'[island_idx]

\* estimate_strength(a) <= estimate_strength(b) at the layer of the assigned island.
NotStronger(a, b) == ~WeakerThan(b, a, islands_graph[layer_idx + 1].layer_z)

\* C21 as stated: the weakest connection recorded for an island is not stronger
\* than its own combined connection to the layer below, and not stronger than
\* the weakest connection of any island of the layer below it is connected to.
C21_MinimumOnPathStep ==
    (AssigningConnectedIsland /\ island_idx' = island_idx + 1)
        => /\ NotStronger(RecordedWeakest, NewWeakest)
           /\ \A k \in DOMAIN AssignedIsland.connected_islands :
                  NotStronger(RecordedWeakest, prev_island_weakest_connection[k])

C21_WeakestIsMinimumOnPath == [][C21_MinimumOnPathStep]_vars

\* The weakest connection recorded for an island is one of the two sums, and
\* not stronger than either.
C21_WeakerOfSumsStep ==
    (AssigningConnectedIsland /\ island_idx' = island_idx + 1)
        => /\ RecordedWeakest \in {TransferedWeakest, NewWeakest}
           /\ NotStronger(RecordedWeakest, NewWeakest)
           /\ NotStronger(RecordedWeakest, TransferedWeakest)

\* C21, amended: the weakest connection recorded for an island is the weaker
\* of two sums: the sum of its own connections to the layer below, and the sum
\* of the weakest connections recorded for the islands of the layer below it
\* is connected to.  Its strength is no greater than the strength of either
\* sum; it may be greater than the strength of the weakest connection of one
\* of those islands.
C21_WeakestIsWeakerOfSums == [][C21_WeakerOfSumsStep]_vars

\* An island has taken over the weakest connection of the island below it.
C21_Witness ==
    /\ pc = "assign"
    /\ island_idx > 1
    /\ island_idx - 1 \in DOMAIN next_island_weakest_connection
    /\ DOMAIN islands_graph[layer_idx + 1].islands[island_idx - 1].connected_islands # {}
    /\ next_island_weakest_connection[island_idx - 1]
           = SumConnections(prev_island_weakest_connection,
                            DOMAIN islands_graph[layer_idx + 1].islands[island_idx - 1].connected_islands)
    /\ ~next_island_weakest_connection[island_idx - 1].infinite

-----------------------------------------------------------------------------
(* The lines of an island *)

\* The lines of the extrusions of the k-th island reckon_islands emits for the
\* lines of the current layer.
IslandLines(k) ==
    Bind(ExtrusionsFrom(layer_lines, 1, NoEntity, << >>), LAMBDA extrusions :
    Bind(NonEmptyIslandExtrusions(layer_lines), LAMBDA island_exs :
        Flatten([n \in 1..Len(island_exs[k]) |->
                    ExtrusionLines(layer_lines, extrusions[island_exs[k][n]])])))

\* C22: the external_lines of every island reckon_islands emits are the lines
\* of the external perimeters among the extrusions of the island, those taken
\* over from islands merged into it as well, and no line of another role.
C22_ExternalLinesAreExternalPerimeters ==
    pc = "raster" =>
        \A k \in 1..Len(result.islands) :
            result.islands[k].external_lines = SelectSeq(IslandLines(k), is_external_perimeter)

\* The summed length of the lines.
RECURSIVE SumLen(_)
SumLen(ls) == IF ls = << >> THEN 0 ELSE Head(ls).len + SumLen(Tail(ls))

\* The lines that carry support_point_generated.
SupportedLines(ls) == SelectSeq(ls, LAMBDA line : line.support_point_generated)

-----------------------------------------------------------------------------
(* A layer of no islands *)

\* The islands of a layer above a layer of no islands have no connections.
NoConnectionsOverEmptyLayer ==
    \A n \in 1..(Len(islands_graph) - 1) :
        islands_graph[n].islands = << >> =>
            \A k \in 1..Len(islands_graph[n + 1].islands) :
                DOMAIN islands_graph[n + 1].islands[k].connected_islands = {}

\* The first loop of check_global_stability is at an island of a layer that
\* lies over a layer of no islands.
AssigningOverEmptyLayer ==
    /\ pc = "assign"
    /\ ~thrown
    /\ layer_idx >= 1
    /\ island_idx <= Len(islands_graph[layer_idx + 1].islands)
    /\ islands_graph[layer_idx].islands = << >>

\* The step of such an island: a new part of the island alone, with the initial
\* weakest connection; no merge, and the parts there were stay as they are.
C24_AssignStep ==
    (AssigningOverEmptyLayer /\ island_idx' = island_idx + 1)
        => /\ merge_calls' = merge_calls
           /\ next_part_idx' = next_part_idx + 1
           /\ next_island_to_object_part_mapping'[island_idx] = next_part_idx
           /\ active_object_parts_id_mapping'[next_part_idx] = next_part_idx
           /\ active_object_parts'[next_part_idx] = ObjectPartOf(AssignedIsland)
           /\ \A id \in DOMAIN active_object_parts :
                  /\ active_object_parts'[id] = active_object_parts[id]
                  /\ active_object_parts_id_mapping'[id] = active_object_parts_id_mapping[id]
           /\ next_island_weakest_connection'[island_idx].area = UnitsPerMM * UnitsPerMM
           /\ next_island_weakest_connection'[island_idx].infinite

\* C24: when a layer gives no islands, every island of the next layer has an
\* empty connected_islands, and check_global_stability inserts a new part for
\* it, with the weakest connection of area 1.0 and infinite second moment, and
\* merges it with no part of the layers below.
C24_NewPartsOverEmptyLayer == []NoConnectionsOverEmptyLayer /\ [][C24_AssignStep]_vars

\* An island over a layer of no islands, with a part below that layer, has
\* been given its part.
C24_Witness ==
    /\ pc = "assign"
    /\ layer_idx >= 2
    /\ islands_graph[layer_idx].islands = << >>
    /\ islands_graph[layer_idx - 1].islands # << >>
    /\ island_idx > 1
    /\ island_idx - 1 \in DOMAIN next_island_to_object_part_mapping
    /\ Cardinality(DOMAIN active_object_parts) >= 2

-----------------------------------------------------------------------------
(* The lines of an island that are checked *)

\* The rule: a line is checked if it has a length and the unchecked distance
\* with its length reaches min_distance_between_support_points, or it is
\* malformed by 0.3 or more.
CheckedByRule(unchecked_dist, line) ==
    /\ line.len # 0
    /\ \/ unchecked_dist + line.len >= params.min_distance_between_support_points
       \/ line.malformation >= 300

\* The unchecked distance before the k-th external line of the island under
\* check, by the rule; before the first line it is
\* min_distance_between_support_points + 1.
RECURSIVE UncheckedBefore(_)
UncheckedBefore(k) ==
    IF k = 1 THEN params.min_distance_between_support_points + UnitsPerMM
    ELSE IF CheckedByRule(UncheckedBefore(k - 1), CheckedIsland.external_lines[k - 1])
         THEN CheckedIsland.external_lines[k - 1].len
         ELSE UncheckedBefore(k - 1) + CheckedIsland.external_lines[k - 1].len

\* The loop over the external lines where the rule says which lines are checked.
RECURSIVE CheckByRuleFrom(_, _, _)
CheckByRuleFrom(g, k, part_id) ==
    IF k > Len(CheckedIsland.external_lines) THEN g
    ELSE IF CheckedByRule(UncheckedBefore(k), CheckedIsland.external_lines[k])
         THEN Bind(CheckStability(CheckState(g, UncheckedBefore(k)), CheckedIsland.external_lines[k],
                                  CheckedIsland, island_idx, part_id,
                                  islands_graph[layer_idx + 1].layer_z, params).g,
                   LAMBDA checked : CheckByRuleFrom(checked, k + 1, part_id))
         ELSE CheckByRuleFrom(g, k + 1, part_id)

\* The step of the island under check leaves what the stability checks of the
\* lines the rule names leave, made in the order of the lines.
C25_CheckStep ==
    (CheckingIsland /\ island_idx' = island_idx + 1
        /\ ~access(CurrentUF, prev_island_to_object_part_mapping[island_idx]).thrown)
        => \E g \in {CheckByRuleFrom(
                        [CurrentGlobal EXCEPT !.active_object_parts =
                            access(CurrentUF, prev_island_to_object_part_mapping[island_idx])],
                        1,
                        get_flat_id(active_object_parts_id_mapping,
                                    prev_island_to_object_part_mapping[island_idx]))} :
               /\ global_issues' = g.issues
               /\ supports_presence_grid' = g.supports_presence_grid
               /\ active_object_parts' = g.active_object_parts.active_object_parts
               /\ prev_island_weakest_connection' = g.prev_island_weakest_connection

\* The first external line of an island that has a length is checked, and a
\* line without a length is not.
C25_FirstLineChecked ==
    CheckingIsland =>
        \A k \in 1..Len(CheckedIsland.external_lines) :
            /\ CheckedIsland.external_lines[k].len = 0
                   => ~CheckedByRule(UncheckedBefore(k), CheckedIsland.external_lines[k])
            /\ (/\ CheckedIsland.external_lines[k].len # 0
                /\ \A n \in 1..(k - 1) : CheckedIsland.external_lines[n].len = 0)
                   => ~LineSkipped(UncheckedBefore(k), CheckedIsland.external_lines[k], params)

\* C25: in the loop over the external lines of an island a line is checked for
\* stability if and only if its length is not zero and the unchecked distance
\* plus its length is at least min_distance_between_support_points or its
\* malformation is at least 0.3; the unchecked distance starts at
\* min_distance_between_support_points + 1 for every island, so the first line
\* with a length is always checked, and a line without a length never is.
C25_LinesCheckedByRule == []C25_FirstLineChecked /\ [][C25_CheckStep]_vars

\* An island was checked that has a line with a length the rule leaves
\* unchecked behind a line it checks, and a support point was planted for it.
C25_Witness ==
    /\ pc = "check"
    /\ ~thrown
    /\ island_idx > 1
    /\ global_issues # << >>
    /\ global_issues[Len(global_issues)].position[3] = islands_graph[layer_idx + 1].layer_z
    /\ \E k \in 2..Len(islands_graph[layer_idx + 1].islands[island_idx - 1].external_lines) :
          /\ islands_graph[layer_idx + 1].islands[island_idx - 1].external_lines[k].len > 0
          /\ islands_graph[layer_idx + 1].islands[island_idx - 1].external_lines[k].malformation < 300
          /\ islands_graph[layer_idx + 1].islands[island_idx - 1].external_lines[k - 1].len > 0
          /\ islands_graph[layer_idx + 1].islands[island_idx - 1].external_lines[k - 1].len
               + islands_graph[layer_idx + 1].islands[island_idx - 1].external_lines[k].len
                 < params.min_distance_between_support_points

-----------------------------------------------------------------------------
(* The support point of a checked line *)

\* The locals of check_global_stability when the loop over the external lines
\* of the island under check begins.
CheckStart ==
    [CurrentGlobal EXCEPT !.active_object_parts =
        access(CurrentUF, prev_island_to_object_part_mapping[island_idx])]

\* The flat id of the part of the island under check.
CheckedPartId ==
    get_flat_id(active_object_parts_id_mapping, prev_island_to_object_part_mapping[island_idx])

\* The support location of a line of the island under check.
SupportLocation(line) == to_3d(TargetPoint(CheckedIsland, line), islands_graph[layer_idx + 1].layer_z)

\* What the stability check of the line leaves.
AfterCheckOf(line) ==
    CheckStability(CheckState(CheckStart, 0), line, CheckedIsland, island_idx, CheckedPartId,
                   islands_graph[layer_idx + 1].layer_z, params).g

\* The check of a line with a force > 0: if the cell of the support location is
\* taken nothing changes; if it is free one support point with the force is
\* appended, the cell is taken, and the sticking area of the part and the area
\* of the weakest connection grow by pi * r^2.
C27_LineChecked ==
    (CheckingIsland /\ ~access(CurrentUF, prev_island_to_object_part_mapping[island_idx]).thrown) =>
        \A line \in CheckedLines :
            StabilityOf(line).positive =>
                \A after \in {AfterCheckOf(line)} :
                    IF position_taken(supports_presence_grid, SupportLocation(line))
                    THEN after = CheckStart
                    ELSE /\ after.issues
                              = Append(global_issues,
                                       SupportPoint(SupportLocation(line), StabilityOf(line).value,
                                                    to_3d(Normalized(Vec2Sub(line.b, line.a)), 0)))
                         /\ after.active_object_parts.active_object_parts[CheckedPartId].sticking_area
                              = CheckedPart.sticking_area + SupportArea(params)
                         /\ after.prev_island_weakest_connection[island_idx].area
                              = CheckedConnection.area + SupportArea(params)
                         /\ after.supports_presence_grid.taken_cells
                              = supports_presence_grid.taken_cells
                                \cup {to_cell_index(supports_presence_grid,
                                          to_cell_coords(supports_presence_grid, SupportLocation(line)))}
                         /\ Cardinality(after.supports_presence_grid.taken_cells)
                              = Cardinality(supports_presence_grid.taken_cells) + 1

\* The step of an island: as many cells are taken as support points are
\* appended, the sticking area of the part and the area of the weakest
\* connection grow by pi * r^2 for each of them, and with no support point
\* nothing changes.
C27_CheckStep ==
    (CheckingIsland /\ island_idx' = island_idx + 1 /\ ~thrown')
        => \A n \in {Len(global_issues') - Len(global_issues)} :
              /\ n >= 0
              /\ SubSeq(global_issues', 1, Len(global_issues)) = global_issues
              /\ Cardinality(supports_presence_grid'.taken_cells)
                   = Cardinality(supports_presence_grid.taken_cells) + n
              /\ active_object_parts'[CheckedPartId].sticking_area
                   = CheckedPart.sticking_area + n * SupportArea(params)
              /\ prev_island_weakest_connection'[island_idx].area
                   = CheckedConnection.area + n * SupportArea(params)
              /\ n = 0 => /\ active_object_parts' = active_object_parts
                          /\ prev_island_weakest_connection' = prev_island_weakest_connection
                          /\ supports_presence_grid' = supports_presence_grid

\* C27: when the stability test of a line gives a force > 0 and the voxel of
\* the support location is taken, no support point is appended and the part,
\* the weakest connection of the island and the taken voxels stay as they are;
\* when the voxel is free exactly one support point with that force is
\* appended, and the sticking_area of the part and the area of the weakest
\* connection grow by pi * support_points_interface_radius^2.
C27_SupportOnlyOnFreeVoxel == []C27_LineChecked /\ [][C27_CheckStep]_vars

\* An island was checked whose first line with a length has a force > 0 and a
\* support location in a taken voxel, and no support point was planted for it.
C27_Witness ==
    /\ pc = "check"
    /\ ~thrown
    /\ island_idx > 1
    /\ global_issues # << >>
    /\ global_issues[Len(global_issues)].position[3] # islands_graph[layer_idx + 1].layer_z
    /\ \E island \in {islands_graph[layer_idx + 1].islands[island_idx - 1]} :
       \E k \in 1..Len(island.external_lines) :
          /\ island.external_lines[k].len > 0
          /\ \A n \in 1..(k - 1) : island.external_lines[n].len = 0
          /\ is_stable_while_extruding(
                 active_object_parts[get_flat_id(active_object_parts_id_mapping,
                                                 prev_island_to_object_part_mapping[island_idx - 1])],
                 prev_island_weakest_connection[island_idx - 1],
                 island.external_lines[k], islands_graph[layer_idx + 1].layer_z, params).positive
          /\ position_taken(supports_presence_grid,
                            to_3d(TargetPoint(island, island.external_lines[k]),
                                  islands_graph[layer_idx + 1].layer_z))

-----------------------------------------------------------------------------
(* The ids of the parts *)

\* The id is a current root: it is mapped to itself and its part is there.
IsRoot(uf, id) ==
    /\ id \in DOMAIN uf.active_object_parts_id_mapping
    /\ uf.active_object_parts_id_mapping[id] = id
    /\ id \in DOMAIN uf.active_object_parts

\* The calls merge(part_id, final_part_id) for the ids, in any order, are each
\* made with two distinct current roots.
RECURSIVE MergesOnRoots(_, _, _)
MergesOnRoots(uf, rest, final_part_id) ==
    \A part_id \in rest :
        /\ part_id # final_part_id
        /\ IsRoot(uf, part_id)
        /\ IsRoot(uf, final_part_id)
        /\ MergesOnRoots(merge(uf, part_id, final_part_id), rest \ {part_id}, final_part_id)

\* The ids stored for the islands of the layer and of the layer below.
StoredPartIds ==
    Range(prev_island_to_object_part_mapping) \cup Range(next_island_to_object_part_mapping)

\* Every stored id resolves to a part that is there, and no at() has thrown.
StoredIdsAreLive ==
    /\ ~thrown
    /\ \A id \in StoredPartIds :
          /\ id \in DOMAIN active_object_parts_id_mapping
          /\ get_flat_id(active_object_parts_id_mapping, id) \in DOMAIN active_object_parts

\* The merges of the island the first loop is at are made on current roots.
C28_MergesOnRoots ==
    AssigningConnectedIsland =>
        \A ids \in {PartsIds(CurrentGlobal, AssignedIsland)} :
            \A final_part_id \in ids :
                MergesOnRoots([CurrentUF EXCEPT !.active_object_parts_id_mapping =
                                  FlattenAll(@, prev_island_to_object_part_mapping,
                                             DOMAIN AssignedIsland.connected_islands)],
                              ids \ {final_part_id}, final_part_id)

\* C28: every call of merge in check_global_stability is made with two
\* distinct ids that are both current roots, so at every point of the pass
\* every part id stored for an island of the layer or of the layer below
\* resolves through get_flat_id to a part that is there, the id of an earlier
\* island of the layer whose part a later island of the layer merged away
\* as well.
C28_StoredIdsResolve == C28_MergesOnRoots /\ StoredIdsAreLive

\* The part stored for an earlier island of the layer was merged away by a
\* later island of the layer.
C28_Witness ==
    /\ pc = "assign"
    /\ merge_calls > 0
    /\ \E i \in DOMAIN next_island_to_object_part_mapping :
          /\ next_island_to_object_part_mapping[i] \notin DOMAIN active_object_parts
          /\ get_flat_id(active_object_parts_id_mapping, next_island_to_object_part_mapping[i])
               \in DOMAIN active_object_parts


-----------------------------------------------------------------------------
(* The mass and the anchor area of the parts *)

\* The sum of the volumes of the islands 1..n of a layer of the graph.
RECURSIVE IslandsVolume(_, _)
IslandsVolume(islands, n) ==
    IF n = 0 THEN 0 ELSE islands[n].volume + IslandsVolume(islands, n - 1)

\* The sum of the sticking areas of the islands 1..n of a layer of the graph.
RECURSIVE IslandsSticking(_, _)
IslandsSticking(islands, n) ==
    IF n = 0 THEN 0 ELSE islands[n].sticking_area + IslandsSticking(islands, n - 1)

\* The sum of the sticking areas of the parts of the ids.
RECURSIVE SumSticking(_, _)
SumSticking(parts, ids) ==
    IF ids = {} THEN 0
    ELSE LET i == CHOOSE j \in ids : TRUE
         IN  parts[i].sticking_area + SumSticking(parts, ids \ {i})

\* The number of islands of the layer of the graph the pass is at that the
\* first loop has assigned to a part.
AssignedOfLayer ==
    IF pc = "assign" THEN island_idx - 1 ELSE Len(islands_graph[layer_idx + 1].islands)

\* The volume of the islands assigned so far: those of the layers below the
\* one the pass is at, and the assigned ones of that layer.
RECURSIVE AssignedVolume(_)
AssignedVolume(n) ==
    IF n = 0 THEN IslandsVolume(islands_graph[layer_idx + 1].islands, AssignedOfLayer)
    ELSE IslandsVolume(islands_graph[n].islands, Len(islands_graph[n].islands))
         + AssignedVolume(n - 1)

\* The sticking area of the islands assigned so far.
RECURSIVE AssignedSticking(_)
AssignedSticking(n) ==
    IF n = 0 THEN IslandsSticking(islands_graph[layer_idx + 1].islands, AssignedOfLayer)
    ELSE IslandsSticking(islands_graph[n].islands, Len(islands_graph[n].islands))
         + AssignedSticking(n - 1)

\* C29: while check_global_stability runs, the sum of volume over all live
\* ObjectParts equals the sum of volume over all islands assigned to parts so
\* far, and the sum of sticking_area over all live ObjectParts equals the sum
\* of those islands' sticking_area plus pi * r^2 times the number of global
\* support points planted so far: merging parts and adding islands never
\* loses or double-counts mass or anchor area.
C29_MassAndAnchorConserved ==
    (pc \in {"assign", "check"} /\ ~thrown) =>
        /\ SumVolumes(active_object_parts, DOMAIN active_object_parts)
             = AssignedVolume(layer_idx)
        /\ SumSticking(active_object_parts, DOMAIN active_object_parts)
             = AssignedSticking(layer_idx) + Len(global_issues) * SupportArea(params)

\* Parts have been merged and a global support point has been planted, and the
\* islands assigned so far have mass and anchor area.
C29_Witness ==
    /\ pc = "check"
    /\ ~thrown
    /\ merge_calls > 0
    /\ Len(global_issues) > 0
    /\ layer_idx >= 1
    /\ AssignedSticking(layer_idx) > 0

-----------------------------------------------------------------------------
(* Every extrusion in one island *)

\* How often the extrusion e stands in the lists of the emitted islands.
Occurrences(island_exs, e) ==
    Cardinality({kn \in UNION {{<<k, n>> : n \in DOMAIN island_exs[k]} : k \in DOMAIN island_exs} :
                    island_exs[kn[1]][kn[2]] = e})

\* The volume of the lines 1..n of the layer.
RECURSIVE LinesVolume(_, _)
LinesVolume(layer_ls, n) ==
    IF n = 0 THEN 0
    ELSE layer_ls[n].origin_entity.min_mm3_per_mm * layer_ls[n].len + LinesVolume(layer_ls, n - 1)

\* C30: for every non-empty layer, every extrusion is assigned to exactly one
\* emitted island and stands exactly once in the extrusion list of that
\* island, so that the sum of the volumes of the emitted islands equals the sum
\* over all lines of the layer of min_mm3_per_mm * len; this holds as well
\* when no external perimeter exists and the first extrusion is the seed.
C30_EveryExtrusionOnce ==
    (pc = "raster" /\ layer_lines # << >>) =>
        Bind(ExtrusionsFrom(layer_lines, 1, NoEntity, << >>), LAMBDA extrusions :
        Bind(NonEmptyIslandExtrusions(layer_lines), LAMBDA island_exs :
            /\ \A e \in 1..Len(extrusions) : Occurrences(island_exs, e) = 1
            /\ IslandsVolume(result.islands, Len(result.islands))
                 = LinesVolume(layer_lines, Len(layer_lines))))
-----------------------------------------------------------------------------
(* Claims about check_extrusion_entity_stability *)

\* A point is within flow_width of some line of the layer below.
WithinFlowWidthOfPrev(point) ==
    \E i \in 1..Len(prev_layer_lines) :
        SquaredDistanceToLine(prev_layer_lines[i], point) < flow_width * flow_width

\* The length of the consecutive lines up to line j whose end points are not
\* within flow_width of the layer below, counted since the last such end point
\* or the last line a support point was emitted at.
RECURSIVE UnsupportedRun(_)
UnsupportedRun(j) ==
    IF j < 1 \/ WithinFlowWidthOfPrev(lines[j].b) THEN 0
    ELSE lines[j].len
         + (IF j > 1 /\ ~lines[j - 1].support_point_generated THEN UnsupportedRun(j - 1) ELSE 0)

EmittedAt(j) ==
    /\ lines[j].support_point_generated
    /\ \E k \in 1..Len(issues) :
          issues[k] = SupportPoint(to_3d(lines[j].b, layer_z), 0, <<0, 0, -1>>)

\* C5: once the unsupported length along a path exceeds bridge_distance, a
\* support point is emitted at the end point of the line where it does, so that
\* after every processed line the bridging distance is at most bridge_distance.
C5_BridgeBounded ==
    local_pc \in {"loop", "done"} /\ line_idx > 1 =>
        /\ bridging_acc.distance <= params.bridge_distance
        /\ \A j \in 1..(line_idx - 1) :
              UnsupportedRun(j) > params.bridge_distance => EmittedAt(j)

\* C5 happens: a line past the first where the unsupported length exceeded
\* bridge_distance and a support point was emitted.
C5_Witness ==
    /\ local_pc = "done"
    /\ \E j \in 2..Len(lines) : UnsupportedRun(j) > params.bridge_distance /\ EmittedAt(j)

\* C6 (as claimed): in scenario 3 a support point with direction (0,0,-1) is
\* emitted near (2, 0, 0.4): within a millimetre of it along the path.
C6_SupportNearTwo ==
    IsScenario3 /\ local_pc = "done" =>
        \E k \in 1..Len(issues) :
            /\ issues[k].direction = <<0, 0, -1>>
            /\ issues[k].position[2] = 0
            /\ issues[k].position[3] = Scenario3Z
            /\ Abs(issues[k].position[1] - 2 * UnitsPerMM) <= UnitsPerMM

\* C6 (amended): in scenario 3 exactly one support point is emitted, at the end
\* of the second of the three equal lines the path is resampled into,
\* (10/3, 0, 0.4), with force 0 and direction (0,0,-1).
C6_SupportAtSecondPiece ==
    IsScenario3 /\ local_pc = "done" =>
        issues = <<SupportPoint(<<(10 * UnitsPerMM) \div 3, 0, Scenario3Z>>, 0, <<0, 0, -1>>)>>

\* C6 happens: scenario 3 has run and has emitted.
C6_Witness == IsScenario3 /\ local_pc = "done" /\ Len(issues) = 1 /\ Len(lines) = 4

\* Every end point of the resampled lines (the first is the path's start) is
\* within flow_width of the layer below.
AllEndPointsSupported == \A i \in 1..Len(lines) : WithinFlowWidthOfPrev(lines[i].b)

\* C7: a path whose start and line end points are all within flow_width of the
\* layer below gets no support point and no support_point_generated flag.
C7_SupportedPathQuiet ==
    local_pc \in {"loop", "done"} /\ AllEndPointsSupported =>
        /\ issues = << >>
        /\ \A i \in 1..Len(lines) : ~lines[i].support_point_generated
        /\ local_pc = "done" =>
              \A i \in 1..Len(checked_lines_out) : ~checked_lines_out[i].support_point_generated

\* C7 happens: a supported path of several lines, with a turn, has been checked.
C7_Witness ==
    /\ local_pc = "done"
    /\ AllEndPointsSupported
    /\ Len(lines) >= 3
    /\ \E i \in 1..Len(lines) : lines[i].len > 0 /\ lines[i].b # prev_layer_lines[1].a
                                /\ SquaredDistanceToLine(prev_layer_lines[1], lines[i].b) > 0

\* The support point of the first point of the path.
StartSupportPoint == SupportPoint(to_3d(entity.points[1], layer_z), 0, <<0, 0, -1>>)

\* C26: a path whose first point is not within flow_width of the lines of the
\* layer below gets a support point at its first point, at the z of the layer,
\* with force 0 and direction (0,0,-1), before any other line of the path is
\* examined: no path starts in mid-air without a support.
C26_StartInAirSupported ==
    (local_pc \in {"loop", "done"} /\ ~WithinFlowWidthOfPrev(entity.points[1])) =>
        /\ line_idx = 1 => issues = << >>
        /\ line_idx = 2 => issues = <<StartSupportPoint>>
        /\ line_idx >= 2 =>
              /\ issues # << >>
              /\ issues[1] = StartSupportPoint
              /\ lines[1].a = entity.points[1]
              /\ lines[1].b = entity.points[1]
              /\ lines[1].support_point_generated

\* C26 happens: a path that starts in mid-air beside a line of the layer below
\* was checked to its end.
C26_Witness ==
    /\ local_pc = "done"
    /\ prev_layer_lines # << >>
    /\ ~WithinFlowWidthOfPrev(entity.points[1])
    /\ issues[1] = StartSupportPoint
    /\ Len(lines) >= 3

====
